---------------------------- MODULE Spec2Model ----------------------------
(***************************************************************************)
(* A model of rust-oomd: the cgroup data sources with their field cache,   *)
(* the context assembler, the memory-pressure detector, the kill action    *)
(* and the memory-reclaim action.                                          *)
(*                                                                         *)
(* Strings that the code inspects (cache keys, cgroup paths, patterns) are *)
(* sequences of tokens; `contains` is contiguous-subsequence containment.  *)
(* Times are milliseconds.  Pressure percentages are integers; a weighted  *)
(* pressure is kept in tenths of a percent.                                *)
(***************************************************************************)
EXTENDS Integers, Sequences, FiniteSets, TLC

VARIABLES
    comp,              \* the component that was constructed: "detector", ...
    det,               \* MemoryPressureDetector: enabled, threshold, duration_seconds, cgroup_pattern
    pressure_history,  \* MemoryPressureDetector.pressure_history: path -> <<time, weighted>> samples
    det_status,        \* the detector's status map (triggered, triggered_cgroups)
    det_clock,         \* SystemTime::now() seen by the detector, in ms
    det_trace,         \* the run calls made so far: time, context, return value
    src,               \* the cgroup source: version, the cgroup read, the field read
    cache,             \* CgroupV1Interface.cache / CgroupV2Interface.cache: key -> CacheEntry
    disk,              \* what reading and parsing each kernel file gives right now
    src_clock,         \* Instant::now() seen by the source, in ms
    advances,          \* how often time has advanced
    last,              \* the last accessor call or assembly: what it returned and read
    act,               \* the action plugin: KillAction or MemoryReclaimAction with its fields
    world,             \* what the action runs on: the OomdContext, /proc, the cgroup files
    alast,             \* the last init or run of the action: its result and its external effects
    reg,               \* PluginRegistry: the names in its plugins, detectors, actions, metadata maps
    rlast,             \* the last registry call and what it returned
    eng,               \* the control loop's configured detectors and actions
    tick,              \* the last tick: what each plugin returned, which plugins were run
    mgd,               \* a plugin run through run_with_context: its BasePlugin counters, the last result
    udet,              \* MemoryUsageDetector: enabled, thresholds, pattern, status map
    ulast              \* the last run of the memory-usage detector: the context, the return value

detVars == <<det, pressure_history, det_status, det_clock, det_trace>>

srcVars == <<src, cache, disk, src_clock, advances, last>>

actVars == <<act, world, alast>>

regVars == <<reg, rlast>>

engVars == <<eng, tick>>

useVars == <<udet, ulast>>

newVars == <<regVars, engVars, mgd, useVars>>

vars == <<comp, detVars, srcVars, actVars, newVars>>

-----------------------------------------------------------------------------
(* Bounds                                                                  *)

MaxTicks == 6

MaxAdvances == 3

\* how often time passes between two assemblies of a cgroup context
MaxAssembleAdvances == 2

-----------------------------------------------------------------------------
(* Generic helpers                                                         *)

None == [tag |-> "None"]

Some(v) == [tag |-> "Some", v |-> v]

Ok(v) == [tag |-> "Ok", v |-> v]

Err(kind) == [tag |-> "Err", kind |-> kind]

IsOk(r) == r.tag = "Ok"

IsSome(o) == o.tag = "Some"

Min2(a, b) == IF a <= b THEN a ELSE b

Max2(a, b) == IF a >= b THEN a ELSE b

SeqToSet(s) == {s[i] : i \in 1..Len(s)}

\* str::contains on token sequences: p occurs in s as a contiguous run
Contains(s, p) ==
    \E i \in 1..(Len(s) + 1) :
        /\ i + Len(p) - 1 <= Len(s)
        /\ \A j \in 1..Len(p) : s[i + j - 1] = p[j]

\* all orders in which the elements of a finite set S can be visited
Orders(S) ==
    {o \in [1..Cardinality(S) -> S] : \A x \in S : \E i \in DOMAIN o : o[i] = x}

-----------------------------------------------------------------------------
(* A component that was not constructed                                    *)

DetIdle ==
    /\ det = None
    /\ pressure_history = << >>
    /\ det_status = << >>
    /\ det_clock = 0
    /\ det_trace = << >>

SrcIdle ==
    /\ src = None
    /\ cache = << >>
    /\ disk = << >>
    /\ src_clock = 0
    /\ advances = 0
    /\ last = None

ActIdle ==
    /\ act = None
    /\ world = None
    /\ alast = None

RegIdle == reg = None /\ rlast = None

EngIdle == eng = None /\ tick = None

MgdIdle == mgd = None

UseIdle == udet = None /\ ulast = None

-----------------------------------------------------------------------------
(* Memory-pressure detector                                                *)

Star == <<"*">>

PathSvcA == <<"svc", "/", "a">>

PathSvcB == <<"svc", "/", "b">>

\* ResourcePressure::weighted, in tenths of a percent
Weighted(p) == Max2(10 * p.sec_10, Max2(8 * p.sec_60, 6 * p.sec_300))

\* The contexts handed to the detector: relative path -> memory_pressure
P85 == [sec_10 |-> 85, sec_60 |-> 80, sec_300 |-> 60]

P50 == [sec_10 |-> 50, sec_60 |-> 40, sec_300 |-> 30]

DetContexts ==
    { [p \in {PathSvcA} |-> Some(P85)],
      [p \in {PathSvcA} |-> Some(P50)],
      [p \in {PathSvcA, PathSvcB} |-> IF p = PathSvcA THEN None ELSE Some(P85)] }

DetThresholds == {70, 90}

DetDurations == {0, 1, 5}

DetPatterns == {Star, PathSvcA}

TickSteps == {1000, 2000}

\* Duration::as_secs
AsSecs(ms) == ms \div 1000

\* now.duration_since(t).unwrap_or_default()
DurationSince(now, t) == IF now >= t THEN now - t ELSE 0

\* history.retain(|(time, _)| now - time <= duration_seconds * 2)
Retain(history, now, d) ==
    SelectSeq(history, LAMBDA e : AsSecs(DurationSince(now, e[1])) <= d * 2)

\* MemoryPressureDetector::check_pressure_threshold: the history is a local
\* clone of self.pressure_history with the new sample pushed; the clone is
\* dropped at the end of the call
CheckPressureThreshold(d, hist, ctx, path, now) ==
    IF path \notin DOMAIN ctx THEN Err("CgroupNotFound")
    ELSE IF ~IsSome(ctx[path]) THEN Err("PressureUnavailable")
    ELSE
        LET w        == Weighted(ctx[path].v)
            stored   == IF path \in DOMAIN hist THEN hist[path] ELSE <<>>
            history  == Retain(Append(stored, <<now, w>>), now, d.duration_seconds)
            exceeded == {history[i][1] : i \in {j \in 1..Len(history) :
                                                 history[j][2] >= 10 * d.threshold}}
        IN  IF exceeded = {} THEN Ok(FALSE)
            ELSE LET start == CHOOSE t \in exceeded : \A u \in exceeded : t <= u
                 IN  Ok(AsSecs(DurationSince(now, start)) >= d.duration_seconds)

\* MemoryPressureDetector::find_matching_cgroups
FindMatchingCgroups(d, ctx) ==
    {p \in DOMAIN ctx : d.cgroup_pattern = Star \/ Contains(p, d.cgroup_pattern)}

\* the cgroups of `order` for which check_pressure_threshold gave Ok(true)
Triggered(d, hist, ctx, order, now) ==
    SelectSeq(order, LAMBDA p : CheckPressureThreshold(d, hist, ctx, p, now) = Ok(TRUE))

\* MemoryPressureDetector::new, then the builders or init(config)
InitDetector ==
    /\ comp = "detector"
    /\ \E th \in DetThresholds, du \in DetDurations, pat \in DetPatterns :
           det = [enabled |-> TRUE, threshold |-> th,
                  duration_seconds |-> du, cgroup_pattern |-> pat]
    /\ pressure_history = << >>
    /\ det_status = << >>
    /\ det_clock = 0
    /\ det_trace = << >>
    /\ SrcIdle
    /\ ActIdle
    /\ RegIdle /\ EngIdle /\ MgdIdle /\ UseIdle

\* time passes between two ticks
DetTick ==
    /\ comp = "detector"
    /\ det_trace # << >>
    /\ Len(det_trace) < MaxTicks
    /\ det_trace[Len(det_trace)].t = det_clock
    /\ \E s \in TickSteps : det_clock' = det_clock + s
    /\ UNCHANGED <<comp, det, pressure_history, det_status, det_trace, srcVars, actVars, newVars>>

\* MemoryPressureDetector::run
DetRun ==
    /\ comp = "detector"
    /\ Len(det_trace) < MaxTicks
    /\ IF det_trace = << >> THEN TRUE ELSE det_trace[Len(det_trace)].t < det_clock
    /\ \E ctx \in DetContexts :
         \E order \in Orders(FindMatchingCgroups(det, ctx)) :
           LET trig == Triggered(det, pressure_history, ctx, order, det_clock)
               ret  == IF ~det.enabled THEN "Continue"
                       ELSE IF trig # << >> THEN "Stop" ELSE "Continue"
           IN  /\ det_status' =
                     IF ~det.enabled THEN det_status
                     ELSE IF trig # << >>
                          THEN [k \in {"triggered", "triggered_cgroups"} |->
                                   IF k = "triggered" THEN Some(TRUE) ELSE Some(trig)]
                          ELSE [k \in DOMAIN det_status \cup {"triggered"} |->
                                   IF k = "triggered" THEN Some(FALSE) ELSE det_status[k]]
               /\ det_trace' = Append(det_trace,
                                      [t |-> det_clock, ctx |-> ctx, ret |-> ret])
    /\ UNCHANGED <<comp, det, pressure_history, det_clock, srcVars, actVars, newVars>>

NextDetector == DetTick \/ DetRun

SpecDetector == InitDetector /\ [][NextDetector]_vars

-----------------------------------------------------------------------------
(* Cgroup sources V1 / V2 and their field cache                            *)

Fields ==
    {"memory_usage", "memory_limit", "memory_pressure", "io_pressure",
     "memory_stat", "io_stat", "pids", "children", "populated"}

\* the field names as they appear in a cache key
FieldName(field) ==
    CASE field = "memory_usage"    -> <<"memory", "_usage">>
      [] field = "memory_limit"    -> <<"memory", "_", "limit">>
      [] field = "memory_pressure" -> <<"memory", "_pressure">>
      [] field = "io_pressure"     -> <<"io", "_pressure">>
      [] field = "memory_stat"     -> <<"memory", "_stat">>
      [] field = "io_stat"         -> <<"io", "_stat">>
      [] field = "pids"            -> <<"pids">>
      [] field = "children"        -> <<"children">>
      [] field = "populated"       -> <<"populated">>

\* format!("{field}:{}", cgroup.relative_path)
Key(field, rel) == FieldName(field) \o <<":">> \o rel

SystemMemoryPressureKey == <<"system_", "memory", "_pressure">>

\* the relative paths of the cgroups read; the second holds the words the
\* V2 cache looks for in a key
CgPaths == {<<"svc">>, <<"memory", "-", "limit">>}

\* Duration::from_secs(n) of each accessor, in ms
TtlMemoryUsage == 1000

TtlMemoryPressure == 2000

TtlIoPressure == 2000

TtlPids == 2000

TtlMemoryLimit == 5000

TtlMemoryStat == 5000

TtlIoStat == 5000

TtlPopulated == 5000

TtlChildren == 10000

TtlSystemPressure == 1000

Ttl(field) ==
    CASE field = "memory_usage"    -> TtlMemoryUsage
      [] field = "memory_limit"    -> TtlMemoryLimit
      [] field = "memory_pressure" -> TtlMemoryPressure
      [] field = "io_pressure"     -> TtlIoPressure
      [] field = "memory_stat"     -> TtlMemoryStat
      [] field = "io_stat"         -> TtlIoStat
      [] field = "pids"            -> TtlPids
      [] field = "children"        -> TtlChildren
      [] field = "populated"       -> TtlPopulated

\* std::any::type_name::<T>() of each accessor's value
TypeOf(field) ==
    CASE field \in {"memory_usage", "memory_limit"}    -> "u64"
      [] field \in {"memory_pressure", "io_pressure"}  -> "ResourcePressure"
      [] field = "memory_stat"                         -> "MemoryStat"
      [] field = "io_stat"                             -> "IOStat"
      [] field = "pids"                                -> "Vec<pid_t>"
      [] field = "children"                            -> "Vec<String>"
      [] field = "populated"                           -> "bool"

\* the CachedData variant get_cache wraps a value of type `type` in
CacheVariant(ver, type, key) ==
    IF type = "ResourcePressure"
    THEN IF ver = "V1" THEN "MemoryPressure"
         ELSE IF Contains(key, <<"memory">>) THEN "MemoryPressure" ELSE "IOPressure"
    ELSE IF type = "u64"
    THEN IF ver = "V1" THEN "MemoryUsage"
         ELSE IF Contains(key, <<"limit">>) THEN "MemoryLimit" ELSE "MemoryUsage"
    ELSE "Unsupported"

\* the variants the hit path of get_cache returns from
HitVariants(ver) ==
    IF ver = "V1" THEN {"MemoryPressure", "MemoryUsage", "MemoryLimit"}
    ELSE {"MemoryPressure", "MemoryUsage", "MemoryLimit", "IOPressure"}

\* an entry that still counts as fresh at the very instant its TTL has elapsed
FreshInclusive(c, key, ttl, now) ==
    key \in DOMAIN c /\ now - c[key].timestamp <= ttl

\* entry.timestamp.elapsed() < ttl
Fresh(c, key, ttl, now) ==
    /\ key \in DOMAIN c
    /\ now - c[key].timestamp < ttl

CachePut(c, key, entry) ==
    [k \in DOMAIN c \cup {key} |-> IF k = key THEN entry ELSE c[k]]

\* the result of an accessor: the cache afterwards, the value, the file reads
Outcome(c, res, reads) == [c |-> c, res |-> res, reads |-> reads]

\* a get_cache that falls back on the expired entry of the key when the
\* closure fails
GetCacheServingStale(ver, c, key, ttl, now, type, inner) ==
    IF Fresh(c, key, ttl, now) /\ c[key].variant \in HitVariants(ver)
    THEN Outcome(c, Ok(c[key].data), 0)
    ELSE IF ~IsOk(inner.res)
    THEN IF key \in DOMAIN c THEN Outcome(inner.c, Ok(c[key].data), inner.reads)
         ELSE inner
    ELSE IF CacheVariant(ver, type, key) = "Unsupported"
    THEN Outcome(inner.c, Err("System"), inner.reads)
    ELSE Outcome(CachePut(inner.c, key,
                          [data |-> inner.res.v,
                           variant |-> CacheVariant(ver, type, key),
                           timestamp |-> now, ttl |-> ttl]),
                 inner.res, inner.reads)

\* get_cache.  `inner` is what running the closure f on cache c gives
GetCache(ver, c, key, ttl, now, type, inner) ==
    IF Fresh(c, key, ttl, now) /\ c[key].variant \in HitVariants(ver)
    THEN Outcome(c, Ok(c[key].data), 0)
    ELSE IF ~IsOk(inner.res)
    THEN inner
    ELSE IF CacheVariant(ver, type, key) = "Unsupported"
    THEN Outcome(inner.c, Err("System"), inner.reads)
    ELSE Outcome(CachePut(inner.c, key,
                          [data |-> inner.res.v,
                           variant |-> CacheVariant(ver, type, key),
                           timestamp |-> now, ttl |-> ttl]),
                 inner.res, inner.reads)

\* one file read and its parse
ReadFile(c, d, file) == Outcome(c, d[file], 1)

GetMemoryUsage(ver, c, rel, now, d) ==
    GetCache(ver, c, Key("memory_usage", rel), TtlMemoryUsage, now, "u64",
             ReadFile(c, d, "usage"))

GetMemoryLimit(ver, c, rel, now, d) ==
    GetCache(ver, c, Key("memory_limit", rel), TtlMemoryLimit, now, "u64",
             ReadFile(c, d, "limit"))

\* V1 get_system_memory_pressure: get_vmstat_pressure behind the cache
GetSystemMemoryPressureV1(c, now, d) ==
    GetCache("V1", c, SystemMemoryPressureKey, TtlSystemPressure, now,
             "ResourcePressure", ReadFile(c, d, "vmstat"))

\* system_psi.sec_N * (usage / limit), kept as the exact fraction
Scaled(x, usage, limit) == [num |-> x * usage, den |-> limit]

\* CgroupV1Interface::estimate_memory_pressure
EstimateMemoryPressure(c, rel, now, d) ==
    LET u == GetMemoryUsage("V1", c, rel, now, d)
    IN  IF ~IsOk(u.res) THEN u
        ELSE LET l == GetMemoryLimit("V1", u.c, rel, now, d)
             IN  IF ~IsOk(l.res) THEN Outcome(l.c, l.res, u.reads + l.reads)
                 ELSE LET s == GetSystemMemoryPressureV1(l.c, now, d)
                      IN  IF ~IsOk(s.res)
                          THEN Outcome(s.c, s.res, u.reads + l.reads + s.reads)
                          ELSE Outcome(s.c,
                                 Ok([sec_10  |-> Scaled(s.res.v.sec_10, u.res.v, l.res.v),
                                     sec_60  |-> Scaled(s.res.v.sec_60, u.res.v, l.res.v),
                                     sec_300 |-> Scaled(s.res.v.sec_300, u.res.v, l.res.v)]),
                                 u.reads + l.reads + s.reads)

GetMemoryPressure(ver, c, rel, now, d) ==
    GetCache(ver, c, Key("memory_pressure", rel), TtlMemoryPressure, now,
             "ResourcePressure",
             IF ver = "V1" THEN EstimateMemoryPressure(c, rel, now, d)
             ELSE ReadFile(c, d, "pressure"))

GetMemoryStat(ver, c, rel, now, d) ==
    GetCache(ver, c, Key("memory_stat", rel), TtlMemoryStat, now, "MemoryStat",
             ReadFile(c, d, "memory_stat"))

\* get_io_stat: a failed read leaves the default IOStat (V1 reads two files)
GetIoStat(ver, c, rel, now, d) ==
    GetCache(ver, c, Key("io_stat", rel), TtlIoStat, now, "IOStat",
             Outcome(c, IF IsOk(d["io_stat"]) THEN d["io_stat"] ELSE Ok("default"),
                     IF ver = "V1" THEN 2 ELSE 1))

\* V1 buckets rios + wios; V2 reads io.pressure
GetIoPressure(ver, c, rel, now, d) ==
    GetCache(ver, c, Key("io_pressure", rel), TtlIoPressure, now, "ResourcePressure",
             IF ver = "V1"
             THEN LET s == GetIoStat("V1", c, rel, now, d)
                  IN  IF ~IsOk(s.res) THEN s
                      ELSE Outcome(s.c, Ok([sec_10 |-> 10, sec_60 |-> 8, sec_300 |-> 6]),
                                   s.reads)
             ELSE ReadFile(c, d, "io_pressure"))

GetPids(ver, c, rel, now, d) ==
    GetCache(ver, c, Key("pids", rel), TtlPids, now, "Vec<pid_t>",
             ReadFile(c, d, "procs"))

GetChildren(ver, c, rel, now, d) ==
    GetCache(ver, c, Key("children", rel), TtlChildren, now, "Vec<String>",
             ReadFile(c, d, "dir"))

\* !pids.is_empty() of get_pids
PopulatedFromPids(ver, c, rel, now, d, reads) ==
    LET p == GetPids(ver, c, rel, now, d)
    IN  Outcome(p.c, IF IsOk(p.res) THEN Ok(p.res.v # << >>) ELSE p.res,
                reads + p.reads)

\* is_populated: V2 reads cgroup.events and falls back to the pids
IsPopulated(ver, c, rel, now, d) ==
    GetCache(ver, c, Key("populated", rel), TtlPopulated, now, "bool",
             IF ver = "V1" THEN PopulatedFromPids(ver, c, rel, now, d, 0)
             ELSE IF ~IsOk(d["events"]) THEN ReadFile(c, d, "events")
             ELSE IF d["events"].v = "none" THEN PopulatedFromPids(ver, c, rel, now, d, 1)
             ELSE Outcome(c, Ok(d["events"].v = "1"), 1))

\* the accessor of each field
Accessor(field, ver, c, rel, now, d) ==
    CASE field = "memory_usage"    -> GetMemoryUsage(ver, c, rel, now, d)
      [] field = "memory_limit"    -> GetMemoryLimit(ver, c, rel, now, d)
      [] field = "memory_pressure" -> GetMemoryPressure(ver, c, rel, now, d)
      [] field = "io_pressure"     -> GetIoPressure(ver, c, rel, now, d)
      [] field = "memory_stat"     -> GetMemoryStat(ver, c, rel, now, d)
      [] field = "io_stat"         -> GetIoStat(ver, c, rel, now, d)
      [] field = "pids"            -> GetPids(ver, c, rel, now, d)
      [] field = "children"        -> GetChildren(ver, c, rel, now, d)
      [] field = "populated"       -> IsPopulated(ver, c, rel, now, d)

\* what reading and parsing each file can give
FileOutcomes(file) ==
    CASE file = "usage"       -> {Err("Io"), Err("Parse"), Ok(100), Ok(200)}
      [] file = "limit"       -> {Err("Io"), Err("Parse"), Ok(200)}
      [] file = "pressure"    -> {Err("Io"), Err("Parse"), Ok(P85), Ok(P50)}
      [] file = "io_pressure" -> {Err("Io"), Err("PressureUnavailable"), Ok(P50)}
      [] file = "vmstat"      -> {Err("Io"), Ok(P85)}
      [] file = "memory_stat" -> {Err("Io"), Ok("stat")}
      [] file = "io_stat"     -> {Err("Io"), Ok("stat")}
      [] file = "procs"       -> {Err("Io"), Ok(<< >>), Ok(<<1, 2>>)}
      [] file = "dir"         -> {Err("Io"), Ok(<<"child">>)}
      [] file = "events"      -> {Err("Io"), Ok("1"), Ok("0"), Ok("none")}

Files ==
    {"usage", "limit", "pressure", "io_pressure", "vmstat", "memory_stat",
     "io_stat", "procs", "dir", "events"}

\* the files the accessor of a field may read
FilesOf(ver, field) ==
    CASE field = "memory_usage"    -> {"usage"}
      [] field = "memory_limit"    -> {"limit"}
      [] field = "memory_pressure" -> IF ver = "V1" THEN {"usage", "limit", "vmstat"}
                                      ELSE {"pressure"}
      [] field = "io_pressure"     -> IF ver = "V1" THEN {"io_stat"} ELSE {"io_pressure"}
      [] field = "memory_stat"     -> {"memory_stat"}
      [] field = "io_stat"         -> {"io_stat"}
      [] field = "pids"            -> {"procs"}
      [] field = "children"        -> {"dir"}
      [] field = "populated"       -> IF ver = "V1" THEN {"procs"} ELSE {"events", "procs"}

\* every file readable, with its first good content
GoodDisk == [f \in Files |-> CHOOSE o \in FileOutcomes(f) : IsOk(o)]

\* the contents a file of the field under test changes between: all of them
\* for the file the accessor itself reads, readable or not for a file that a
\* nested accessor reads
ChangeOutcomes(ver, field, f) ==
    IF FilesOf(ver, field) = {f} \/ f = "events"
    THEN FileOutcomes(f)
    ELSE {Err("Io"), GoodDisk[f]}

TimeSteps == {500, 700, 5000}

\* between two assemblies: less than the shortest TTL, or more than most
AssembleSteps == {700, 5000}

\* CgroupV1Interface::new / CgroupV2Interface::new: an empty cache
InitCache ==
    /\ comp = "source"
    /\ \E ver \in {"V1", "V2"}, rel \in CgPaths, field \in Fields :
           src = [version |-> ver, rel |-> rel, field |-> field]
    /\ cache = << >>
    /\ disk = GoodDisk
    /\ src_clock = 0
    /\ advances = 0
    /\ last = None
    /\ DetIdle
    /\ ActIdle
    /\ RegIdle /\ EngIdle /\ MgdIdle /\ UseIdle

\* time passes
Advance ==
    /\ comp \in {"source", "assembler"}
    /\ advances < (IF comp = "assembler" THEN MaxAssembleAdvances ELSE MaxAdvances)
    /\ advances' = advances + 1
    /\ \E s \in (IF comp = "assembler" THEN AssembleSteps ELSE TimeSteps) :
           src_clock' = src_clock + s
    /\ UNCHANGED <<comp, src, cache, disk, last, detVars, actVars, newVars>>

\* the kernel changes what a file of the field under test holds
DiskChange ==
    /\ comp = "source"
    /\ \E f \in FilesOf(src.version, src.field) :
         \E o \in ChangeOutcomes(src.version, src.field, f) :
           /\ o # disk[f]
           /\ disk' = [disk EXCEPT ![f] = o]
    /\ UNCHANGED <<comp, src, cache, src_clock, advances, last, detVars, actVars, newVars>>

\* one call of the accessor of the field under test
Lookup ==
    /\ comp = "source"
    /\ LET r == Accessor(src.field, src.version, cache, src.rel, src_clock, disk)
       IN  /\ cache' = r.c
           /\ last' = [op |-> "lookup", t |-> src_clock, before |-> cache,
                       res |-> r.res, reads |-> r.reads]
    /\ UNCHANGED <<comp, src, disk, src_clock, advances, detVars, actVars, newVars>>

NextCache == Advance \/ DiskChange \/ Lookup

SpecCache == InitCache /\ [][NextCache]_vars

-----------------------------------------------------------------------------
(* Context assembler                                                       *)

\* the order in which tokio::join! polls the nine accessors
FieldOrder ==
    <<"memory_usage", "memory_limit", "memory_pressure", "io_pressure",
      "memory_stat", "io_stat", "pids", "children", "populated">>

\* Result::ok
OkOption(r) == IF IsOk(r) THEN Some(r.v) ELSE None

\* the accessors FieldOrder[i..9] run one after the other on cache c;
\* `done` holds the results of FieldOrder[1..i-1]
RECURSIVE RunAccessors(_, _, _, _, _, _, _)
RunAccessors(i, ver, c, rel, now, d, done) ==
    IF i > Len(FieldOrder) THEN [c |-> c, results |-> done]
    ELSE LET r == Accessor(FieldOrder[i], ver, c, rel, now, d)
         IN  RunAccessors(i + 1, ver, r.c, rel, now, d,
                          [f \in DOMAIN done \cup {FieldOrder[i]} |->
                              IF f = FieldOrder[i] THEN [res |-> r.res, reads |-> r.reads]
                              ELSE done[f]])

\* a variant that gives up when memory_limit cannot be read
GetCgroupContextPropagating(ver, c, rel, now, d) ==
    LET r == RunAccessors(1, ver, c, rel, now, d, << >>)
    IN  [c |-> r.c, results |-> r.results,
         out |-> IF IsOk(r.results["memory_limit"].res)
                 THEN Ok([f \in Fields |-> OkOption(r.results[f].res)])
                 ELSE r.results["memory_limit"].res]

\* CgroupManager::get_cgroup_context
GetCgroupContext(ver, c, rel, now, d) ==
    LET r == RunAccessors(1, ver, c, rel, now, d, << >>)
    IN  [c |-> r.c, results |-> r.results,
         out |-> Ok([f \in Fields |-> OkOption(r.results[f].res)])]

\* CgroupContext::is_valid
IsValid(ctx) == IsSome(ctx["memory_usage"]) \/ IsSome(ctx["memory_pressure"])

\* the files a source reads at all
FilesUsed(ver) == UNION {FilesOf(ver, f) : f \in Fields}

\* every file of the cgroup is either unreadable or holds its good content
AssembleDisks(ver) ==
    {[f \in Files |-> IF f \in bad THEN Err("Io") ELSE GoodDisk[f]] :
        bad \in SUBSET FilesUsed(ver)}

InitAssemble ==
    /\ comp = "assembler"
    /\ \E ver \in {"V1", "V2"} :
           /\ src = [version |-> ver, rel |-> <<"svc">>, field |-> "all"]
           /\ disk \in AssembleDisks(ver)
    /\ cache = << >>
    /\ src_clock = 0
    /\ advances = 0
    /\ last = None
    /\ DetIdle
    /\ ActIdle
    /\ RegIdle /\ EngIdle /\ MgdIdle /\ UseIdle

Assemble ==
    /\ comp = "assembler"
    /\ LET r == GetCgroupContext(src.version, cache, src.rel, src_clock, disk)
       IN  /\ cache' = r.c
           /\ last' = [op |-> "assemble", t |-> src_clock,
                       results |-> r.results, out |-> r.out]
    /\ UNCHANGED <<comp, src, disk, src_clock, advances, detVars, actVars, newVars>>

NextAssemble == Advance \/ Assemble

SpecAssemble == InitAssemble /\ [][NextAssemble]_vars

-----------------------------------------------------------------------------
(* KillAction                                                              *)

\* the largest max_kill_count tried
MaxKill == 2

KillStrategies ==
    {[kind |-> k] : k \in {"HighestMemory", "HighestOomScore", "LowestOomScore",
                           "Oldest", "Newest"}}
    \cup {[kind |-> "CgroupTarget", cgroup_path |-> path] : path \in {"a", "missing"}}

\* KillStrategy::default
DefaultStrategy == [kind |-> "HighestMemory"]

\* the OomdContext handed to run: cgroup a holds pids 1 and 2, cgroup b
\* pids 3, 4 and 5, cgroup c has no pid list
KillContext ==
    [a |-> [pids |-> Some(<<1, 2>>)],
     b |-> [pids |-> Some(<<3, 4, 5>>)],
     c |-> [pids |-> None]]

\* /proc/<pid>/oom_score of the four live processes
OomScores == <<30, 10, 10, 20>>

\* /proc/<pid>/stat field 23 (vsize) of the four live processes; pid 5 has
\* exited and has no /proc entry
KillWorlds ==
    {[cgroups |-> KillContext,
      proc    |-> [pid \in 1..4 |-> [memory_usage |-> IF pid = 1 THEN 1000
                                                     ELSE IF pid = 4 THEN 4000
                                                     ELSE m[pid],
                                     oom_score |-> OomScores[pid]]]] :
        m \in [{2, 3} -> {1000, 2000, 3000}]}

\* the pids kill(2) refuses with EPERM
Unkillable == {2}

\* nix Signal::try_from succeeds for SIGHUP .. SIGSYS
ValidSignal(n) == n \in 1..31

\* get_process_info for each pid of a list, dropping the pids it fails on
RECURSIVE ProcessInfos(_, _)
ProcessInfos(w, pids) ==
    IF pids = << >> THEN << >>
    ELSE (IF Head(pids) \in DOMAIN w.proc
          THEN <<[pid |-> Head(pids),
                  memory_usage |-> w.proc[Head(pids)].memory_usage,
                  oom_score |-> w.proc[Head(pids)].oom_score]>>
          ELSE << >>) \o ProcessInfos(w, Tail(pids))

\* the processes of the cgroups visited in the order given
RECURSIVE Gather(_, _)
Gather(w, order) ==
    IF order = << >> THEN << >>
    ELSE (IF IsSome(w.cgroups[Head(order)].pids)
          THEN ProcessInfos(w, w.cgroups[Head(order)].pids.v)
          ELSE << >>) \o Gather(w, Tail(order))

\* the comparator of each strategy says a sorts strictly before b
Before(strategy, a, b) ==
    CASE strategy.kind = "HighestMemory"   -> b.memory_usage < a.memory_usage
      [] strategy.kind = "HighestOomScore" -> b.oom_score < a.oom_score
      [] strategy.kind = "LowestOomScore"  -> a.oom_score < b.oom_score
      [] strategy.kind = "Oldest"          -> a.memory_usage < b.memory_usage
      [] strategy.kind = "Newest"          -> b.memory_usage < a.memory_usage
      [] strategy.kind = "CgroupTarget"    -> b.memory_usage < a.memory_usage

\* x put into a sorted list behind everything it does not sort before
RECURSIVE InsertStable(_, _, _)
InsertStable(strategy, x, sorted) ==
    IF sorted = << >> THEN <<x>>
    ELSE IF Before(strategy, x, Head(sorted)) THEN <<x>> \o sorted
    ELSE <<Head(sorted)>> \o InsertStable(strategy, x, Tail(sorted))

\* slice::sort_by: a stable sort
RECURSIVE SortBy(_, _, _)
SortBy(strategy, list, n) ==
    IF n = 0 THEN << >>
    ELSE InsertStable(strategy, list[n], SortBy(strategy, list, n - 1))

\* Vec::truncate
Truncate(list, n) == SubSeq(list, 1, Min2(n, Len(list)))

\* a find_targets that forgets to truncate
FindTargetsUntruncated(k, w, order) ==
    LET processes ==
            IF k.kill_strategy.kind = "CgroupTarget"
            THEN IF k.kill_strategy.cgroup_path \in DOMAIN w.cgroups
                 THEN Gather(w, <<k.kill_strategy.cgroup_path>>)
                 ELSE << >>
            ELSE Gather(w, order)
    IN  SortBy(k.kill_strategy, processes, Len(processes))

\* KillAction::find_targets; `order` is the order HashMap::values yields
FindTargets(k, w, order) ==
    LET processes ==
            IF k.kill_strategy.kind = "CgroupTarget"
            THEN IF k.kill_strategy.cgroup_path \in DOMAIN w.cgroups
                 THEN Gather(w, <<k.kill_strategy.cgroup_path>>)
                 ELSE << >>
            ELSE Gather(w, order)
    IN  Truncate(SortBy(k.kill_strategy, processes, Len(processes)), k.max_kill_count)

\* a kill_process that signals even in a dry run
KillProcessNoDryRun(k, process) ==
    IF ~ValidSignal(k.kill_signal)
    THEN [result |-> "ErrConfig", sent |-> << >>]
    ELSE [result |-> IF process.pid \in Unkillable THEN "Failed" ELSE "Success",
          sent   |-> <<[pid |-> process.pid, signal |-> k.kill_signal]>>]

\* KillAction::kill_process: the ActionResult and the signals delivered
KillProcess(k, process) ==
    IF k.dry_run
    THEN [result |-> "Skipped", sent |-> << >>]
    ELSE IF ~ValidSignal(k.kill_signal)
    THEN [result |-> "ErrConfig", sent |-> << >>]
    ELSE [result |-> IF process.pid \in Unkillable THEN "Failed" ELSE "Success",
          sent   |-> <<[pid |-> process.pid, signal |-> k.kill_signal]>>]

RECURSIVE Flatten(_)
Flatten(ss) == IF ss = << >> THEN << >> ELSE Head(ss) \o Flatten(Tail(ss))

\* a JSON config object: every key is absent (None) or present (Some)
EmptyKillConfig ==
    [strategy |-> None, cgroup_path |-> None, dry_run |-> None,
     max_kill_count |-> None, kill_signal |-> None]

\* the configs handed to init: any strategy name (cgroup_target names
\* cgroup a, "bogus" is no strategy), and at most one other key
KillConfigs ==
    LET others == {EmptyKillConfig}
                  \cup {[EmptyKillConfig EXCEPT !.dry_run = Some(b)] : b \in BOOLEAN}
                  \cup {[EmptyKillConfig EXCEPT !.max_kill_count = Some(n)] : n \in {0, MaxKill}}
                  \cup {[EmptyKillConfig EXCEPT !.kill_signal = Some(n)] : n \in {15, 99}}
        names  == {"highest_memory", "highest_oom_score", "lowest_oom_score",
                   "oldest", "newest", "bogus"}
    IN  others
        \cup {[c EXCEPT !.strategy = Some(n)] : c \in others, n \in names}
        \cup {[c EXCEPT !.strategy = Some("cgroup_target"), !.cgroup_path = Some("a")] :
                 c \in others}

\* the match on the strategy string in init
StrategyOfName(name) ==
    CASE name = "highest_memory"    -> [kind |-> "HighestMemory"]
      [] name = "highest_oom_score" -> [kind |-> "HighestOomScore"]
      [] name = "lowest_oom_score"  -> [kind |-> "LowestOomScore"]
      [] name = "oldest"            -> [kind |-> "Oldest"]
      [] name = "newest"            -> [kind |-> "Newest"]
      [] OTHER                      -> DefaultStrategy

\* KillAction::new
InitKill ==
    /\ comp = "kill"
    /\ act = [enabled |-> TRUE, initialized |-> FALSE, config |-> EmptyKillConfig,
              kill_strategy |-> DefaultStrategy, dry_run |-> FALSE,
              max_kill_count |-> 1, kill_signal |-> 9]
    /\ world \in KillWorlds
    /\ alast = None
    /\ DetIdle
    /\ SrcIdle
    /\ RegIdle /\ EngIdle /\ MgdIdle /\ UseIdle

\* the builder calls are made on the freshly constructed action
Building == comp = "kill" /\ ~act.initialized /\ alast = None

WithStrategy ==
    /\ Building
    /\ \E strategy \in KillStrategies : act' = [act EXCEPT !.kill_strategy = strategy]
    /\ UNCHANGED <<comp, world, alast, detVars, srcVars, newVars>>

WithDryRun ==
    /\ Building
    /\ \E dry_run \in BOOLEAN : act' = [act EXCEPT !.dry_run = dry_run]
    /\ UNCHANGED <<comp, world, alast, detVars, srcVars, newVars>>

WithMaxKillCount ==
    /\ Building
    /\ \E count \in 0..MaxKill : act' = [act EXCEPT !.max_kill_count = count]
    /\ UNCHANGED <<comp, world, alast, detVars, srcVars, newVars>>

WithKillSignal ==
    /\ Building
    /\ \E signal \in {9, 99} : act' = [act EXCEPT !.kill_signal = signal]
    /\ UNCHANGED <<comp, world, alast, detVars, srcVars, newVars>>

\* KillAction::init
KillInit ==
    /\ comp = "kill"
    /\ ~act.initialized
    /\ \E config \in KillConfigs :
         LET k == [act EXCEPT
                     !.initialized = TRUE,
                     !.config = config,
                     !.kill_strategy = IF IsSome(config.strategy)
                                       THEN StrategyOfName(config.strategy.v) ELSE @,
                     !.dry_run = IF IsSome(config.dry_run) THEN config.dry_run.v ELSE @,
                     !.max_kill_count = IF IsSome(config.max_kill_count)
                                        THEN config.max_kill_count.v ELSE @,
                     !.kill_signal = IF IsSome(config.kill_signal)
                                     THEN config.kill_signal.v ELSE @]
         IN  /\ act' = k
             /\ alast' = [op |-> "init",
                          ret |-> IF k.max_kill_count = 0 THEN Err("Config") ELSE Ok("unit")]
    /\ UNCHANGED <<comp, world, detVars, srcVars, newVars>>

\* KillAction::run
KillRun ==
    /\ comp = "kill"
    /\ IF ~act.enabled
       THEN alast' = [op |-> "run", targets |-> << >>, results |-> << >>,
                      sent |-> << >>, ret |-> "Continue"]
       ELSE \E order \in Orders(DOMAIN world.cgroups) :
              LET targets == FindTargets(act, world, order)
                  killed  == [i \in 1..Len(targets) |-> KillProcess(act, targets[i])]
              IN  alast' = [op |-> "run", targets |-> targets,
                            results |-> [i \in 1..Len(targets) |-> killed[i].result],
                            sent |-> Flatten([i \in 1..Len(targets) |-> killed[i].sent]),
                            ret |-> "Continue"]
    /\ UNCHANGED <<comp, act, world, detVars, srcVars, newVars>>

NextKill ==
    WithStrategy \/ WithDryRun \/ WithMaxKillCount \/ WithKillSignal \/ KillInit \/ KillRun

SpecKill == InitKill /\ [][NextKill]_vars

-----------------------------------------------------------------------------
(* MemoryReclaimAction                                                     *)

\* the largest cgroup_count tried
MaxCgroupCount == 2

\* the hierarchy root create_cgroup_path strips, as one path component
Root == <<"/sys/fs/cgroup">>

\* the relative paths of the three cgroups of the context
RelPaths == {<<"x">>, <<"y">>, <<"z">>}

\* Path::strip_prefix
StripPrefix(root, path) ==
    IF Len(path) >= Len(root) /\ SubSeq(path, 1, Len(root)) = root
    THEN Ok(SubSeq(path, Len(root) + 1, Len(path)))
    ELSE Err("InvalidPath")

\* CgroupManager::create_cgroup_path: CgroupPath::new(root, path)
CreateCgroupPath(path) ==
    LET rel == StripPrefix(Root, path)
    IN  IF IsOk(rel) THEN Ok([root |-> Root, path |-> path, relative_path |-> rel.v])
        ELSE rel

\* memory_usage of x, y, z in GiB; y may equal x or be unread
ReclaimUsages ==
    {[r \in RelPaths |-> IF r = <<"x">> THEN Some(5)
                         ELSE IF r = <<"z">> THEN Some(8) ELSE y] :
        y \in {Some(3), Some(5), None}}

\* /proc/sys/vm/drop_caches: its content and whether it can be read and written
DropCachesFiles ==
    {[value |-> "0", readable |-> TRUE,  writable |-> TRUE],
     [value |-> "3", readable |-> TRUE,  writable |-> TRUE],
     [value |-> "3", readable |-> FALSE, writable |-> TRUE],
     [value |-> "0", readable |-> FALSE, writable |-> FALSE]}

\* the context is keyed by relative path or by absolute path; the kernel
\* accepts a memory.reclaim write for the cgroups in `reclaimable`
ReclaimWorld(keyed, u, ok, f) ==
    [cgroups |-> [k \in {(IF keyed = "absolute" THEN Root ELSE << >>) \o r : r \in RelPaths}
                    |-> [memory_usage |-> u[<<k[Len(k)]>>]]],
     reclaimable |-> ok,
     drop_caches |-> f]

\* every variety of cgroups with one drop_caches file, and every variety of
\* that file with one set of cgroups
ReclaimWorlds ==
    {ReclaimWorld(keyed, u, ok, [value |-> "0", readable |-> TRUE, writable |-> TRUE]) :
        keyed \in {"relative", "absolute"}, u \in ReclaimUsages,
        ok \in {RelPaths, {<<"x">>, <<"y">>}}}
    \cup {ReclaimWorld("relative", [r \in RelPaths |-> Some(5)], RelPaths, f) :
             f \in DropCachesFiles}

Percentages == {10, 29}

\* 100 MiB (the default), 1 GiB, and two small amounts
ReclaimAmounts == {104857600, 1073741824, 100, 5}

ReclaimStrategies ==
    {[kind |-> "DropCache"]}
    \cup {[kind |-> "CgroupTarget", cgroup_path |-> path, percentage |-> pct] :
             path \in {Root \o <<"x">>, <<"x">>}, pct \in Percentages}
    \cup {[kind |-> "AllCgroups", percentage |-> pct] : pct \in Percentages}
    \cup {[kind |-> "HighestUsage", percentage |-> pct, cgroup_count |-> n] :
             pct \in Percentages, n \in 1..MaxCgroupCount}

\* the inputs whose f64 product comes out just under a whole number:
\* 100.0 * (29.0 / 100.0) = 28.999999999999996, and 104857600.0 * (29.0 / 100.0)
\* = 30408703.999999996
RoundsBelow == {<<100, 29>>, <<104857600, 29>>}

\* (reclaim_amount_bytes as f64 * (percentage as f64 / 100.0)) as u64
ReclaimAmount(amount, pct) ==
    (amount \div 100) * pct + ((amount % 100) * pct) \div 100
    - (IF <<amount, pct>> \in RoundsBelow THEN 1 ELSE 0)

\* MemoryReclaimAction::drop_page_cache: the result, the writes made, the
\* content the file is left with
DropPageCache(a, w) ==
    IF a.dry_run
    THEN [result |-> "Skipped", effects |-> << >>, left |-> w.drop_caches.value]
    ELSE IF ~w.drop_caches.writable
    THEN [result |-> "ErrIo", effects |-> << >>, left |-> w.drop_caches.value]
    ELSE LET current_value == IF w.drop_caches.readable THEN w.drop_caches.value ELSE "0"
         IN  [result |-> "Success",
              effects |-> <<[kind |-> "drop_caches", value |-> "1"],
                            [kind |-> "drop_caches", value |-> current_value]>>,
              left |-> current_value]

\* MemoryReclaimAction::reclaim_from_cgroup
ReclaimFromCgroup(a, w, cgroup_path, amount) ==
    IF ~a.cgroup_manager THEN [result |-> "Failed", effects |-> << >>]
    ELSE LET obj == CreateCgroupPath(cgroup_path)
         IN  IF ~IsOk(obj) THEN [result |-> "ErrInvalidPath", effects |-> << >>]
             ELSE IF a.dry_run THEN [result |-> "Skipped", effects |-> << >>]
             ELSE [result |-> IF obj.v.relative_path \in w.reclaimable
                              THEN "Success" ELSE "Failed",
                   effects |-> <<[kind |-> "memory_reclaim",
                                  cgroup |-> obj.v.relative_path, amount |-> amount]>>]

\* MemoryReclaimAction::reclaim_from_multiple_cgroups; total_reclaimed > 0
\* iff some call succeeded with a non-zero amount
ReclaimFromMultipleCgroups(a, w, cgroups, amount_per_cgroup) ==
    LET each == [i \in 1..Len(cgroups) |->
                    ReclaimFromCgroup(a, w, cgroups[i], amount_per_cgroup)]
    IN  [result  |-> IF amount_per_cgroup > 0 /\
                        \E i \in 1..Len(cgroups) : each[i].result = "Success"
                     THEN "Success" ELSE "Failed",
         effects |-> Flatten([i \in 1..Len(cgroups) |-> each[i].effects])]

\* the (path, usage) pairs of the cgroups that have a usage, in map order
RECURSIVE WithUsage(_, _)
WithUsage(w, order) ==
    IF order = << >> THEN << >>
    ELSE (IF IsSome(w.cgroups[Head(order)].memory_usage)
          THEN <<[path |-> Head(order), usage |-> w.cgroups[Head(order)].memory_usage.v]>>
          ELSE << >>) \o WithUsage(w, Tail(order))

RECURSIVE InsertByUsage(_, _)
InsertByUsage(x, sorted) ==
    IF sorted = << >> THEN <<x>>
    ELSE IF Head(sorted).usage < x.usage THEN <<x>> \o sorted
    ELSE <<Head(sorted)>> \o InsertByUsage(x, Tail(sorted))

\* sort_by(|a, b| b.1.cmp(&a.1)): stable, highest usage first
RECURSIVE SortByUsage(_, _)
SortByUsage(list, n) ==
    IF n = 0 THEN << >> ELSE InsertByUsage(list[n], SortByUsage(list, n - 1))

\* MemoryReclaimAction::find_highest_usage_cgroups
FindHighestUsageCgroups(w, order, count) ==
    LET cgroups == WithUsage(w, order)
        top     == Truncate(SortByUsage(cgroups, Len(cgroups)), count)
    IN  [i \in 1..Len(top) |-> top[i].path]

\* the match on the strategy in run
ReclaimResult(a, w, order) ==
    LET s == a.reclaim_strategy
    IN  CASE s.kind = "DropCache" -> DropPageCache(a, w)
          [] s.kind = "CgroupTarget" ->
                ReclaimFromCgroup(a, w, s.cgroup_path,
                                  ReclaimAmount(a.reclaim_amount_bytes, s.percentage))
                @@ [left |-> w.drop_caches.value]
          [] s.kind = "AllCgroups" ->
                ReclaimFromMultipleCgroups(a, w, order,
                                  ReclaimAmount(a.reclaim_amount_bytes, s.percentage))
                @@ [left |-> w.drop_caches.value]
          [] s.kind = "HighestUsage" ->
                ReclaimFromMultipleCgroups(a, w,
                                  FindHighestUsageCgroups(w, order, s.cgroup_count),
                                  ReclaimAmount(a.reclaim_amount_bytes, s.percentage))
                @@ [left |-> w.drop_caches.value]

EmptyReclaimConfig ==
    [strategy |-> None, cgroup_path |-> None, percentage |-> None,
     cgroup_count |-> None, reclaim_amount_bytes |-> None, dry_run |-> None]

\* the configs handed to init: a strategy with or without its parameters,
\* and at most one other key
ReclaimConfigs ==
    LET strategies ==
            {EmptyReclaimConfig}
            \cup {[EmptyReclaimConfig EXCEPT !.strategy = Some(n)] :
                     n \in {"drop_cache", "cgroup_target", "all_cgroups",
                            "highest_usage", "bogus"}}
            \cup {[EmptyReclaimConfig EXCEPT !.strategy = Some("cgroup_target"),
                                             !.cgroup_path = Some(Root \o <<"x">>),
                                             !.percentage = Some(29)],
                  [EmptyReclaimConfig EXCEPT !.strategy = Some("highest_usage"),
                                             !.percentage = Some(29),
                                             !.cgroup_count = Some(MaxCgroupCount)]}
    IN  strategies
        \cup {[c EXCEPT !.reclaim_amount_bytes = Some(0)] : c \in strategies}
        \cup {[c EXCEPT !.dry_run = Some(TRUE)] : c \in strategies}

\* Option::unwrap_or
UnwrapOr(o, default) == IF IsSome(o) THEN o.v ELSE default

\* the match on the strategy string in init
ReclaimStrategyOfConfig(config) ==
    CASE config.strategy.v = "drop_cache" -> [kind |-> "DropCache"]
      [] config.strategy.v = "cgroup_target" ->
            [kind |-> "CgroupTarget",
             cgroup_path |-> UnwrapOr(config.cgroup_path, << >>),
             percentage |-> UnwrapOr(config.percentage, 10)]
      [] config.strategy.v = "all_cgroups" ->
            [kind |-> "AllCgroups", percentage |-> UnwrapOr(config.percentage, 10)]
      [] config.strategy.v = "highest_usage" ->
            [kind |-> "HighestUsage",
             percentage |-> UnwrapOr(config.percentage, 10),
             cgroup_count |-> UnwrapOr(config.cgroup_count, 3)]
      [] OTHER -> [kind |-> "DropCache"]

\* MemoryReclaimAction::new
InitReclaim ==
    /\ comp = "reclaim"
    /\ act = [enabled |-> TRUE, initialized |-> FALSE, config |-> EmptyReclaimConfig,
              reclaim_strategy |-> [kind |-> "DropCache"],
              reclaim_amount_bytes |-> 104857600, dry_run |-> FALSE,
              cgroup_manager |-> FALSE]
    /\ world \in ReclaimWorlds
    /\ alast = None
    /\ DetIdle
    /\ SrcIdle
    /\ RegIdle /\ EngIdle /\ MgdIdle /\ UseIdle

\* the builder calls are made on the freshly constructed action
ReclaimBuilding == comp = "reclaim" /\ ~act.initialized /\ alast = None

ReclaimWithStrategy ==
    /\ ReclaimBuilding
    /\ \E strategy \in ReclaimStrategies : act' = [act EXCEPT !.reclaim_strategy = strategy]
    /\ UNCHANGED <<comp, world, alast, detVars, srcVars, newVars>>

WithReclaimAmount ==
    /\ ReclaimBuilding
    /\ \E amount_bytes \in ReclaimAmounts :
           act' = [act EXCEPT !.reclaim_amount_bytes = amount_bytes]
    /\ UNCHANGED <<comp, world, alast, detVars, srcVars, newVars>>

ReclaimWithDryRun ==
    /\ ReclaimBuilding
    /\ \E dry_run \in BOOLEAN : act' = [act EXCEPT !.dry_run = dry_run]
    /\ UNCHANGED <<comp, world, alast, detVars, srcVars, newVars>>

WithCgroupManager ==
    /\ ReclaimBuilding
    /\ ~act.cgroup_manager
    /\ act' = [act EXCEPT !.cgroup_manager = TRUE]
    /\ UNCHANGED <<comp, world, alast, detVars, srcVars, newVars>>

\* MemoryReclaimAction::init
ReclaimInit ==
    /\ comp = "reclaim"
    /\ ~act.initialized
    /\ \E config \in ReclaimConfigs :
         LET a == [act EXCEPT
                     !.initialized = TRUE,
                     !.config = config,
                     !.reclaim_strategy = IF IsSome(config.strategy)
                                          THEN ReclaimStrategyOfConfig(config) ELSE @,
                     !.reclaim_amount_bytes = UnwrapOr(config.reclaim_amount_bytes, @),
                     !.dry_run = UnwrapOr(config.dry_run, @)]
         IN  /\ act' = a
             /\ alast' = [op |-> "init",
                          ret |-> IF a.reclaim_amount_bytes = 0
                                  THEN Err("Config") ELSE Ok("unit")]
    /\ UNCHANGED <<comp, world, detVars, srcVars, newVars>>

\* MemoryReclaimAction::run
ReclaimRun ==
    /\ comp = "reclaim"
    /\ IF ~act.enabled
       THEN /\ alast' = [op |-> "run", result |-> "None", effects |-> << >>,
                         ret |-> "Continue", before |-> world.drop_caches.value]
            /\ world' = world
       ELSE \E order \in Orders(DOMAIN world.cgroups) :
              LET r == ReclaimResult(act, world, order)
              IN  /\ alast' = [op |-> "run", result |-> r.result, effects |-> r.effects,
                               ret |-> "Continue", before |-> world.drop_caches.value]
                  /\ world' = [world EXCEPT !.drop_caches.value = r.left]
    /\ UNCHANGED <<comp, act, detVars, srcVars, newVars>>

NextReclaim ==
    \/ ReclaimWithStrategy
    \/ WithReclaimAmount
    \/ ReclaimWithDryRun
    \/ WithCgroupManager
    \/ ReclaimInit
    \/ ReclaimRun

SpecReclaim == InitReclaim /\ [][NextReclaim]_vars

\* either action plugin
SpecActions == (InitKill \/ InitReclaim) /\ [][NextKill \/ NextReclaim]_vars

-----------------------------------------------------------------------------
(* The control loop's plugin pipeline: one tick over the configured        *)
(* detectors and the configured action chain                                *)

DetectorNames == {"d1", "d2", "d3"}

ActionNames == {"a1", "a2"}

Priorities == {1, 2}

\* what a plugin's run gives back on one tick
RunOutcomes == {"Continue", "Stop", "Err"}

\* the plugin records of the configuration, in the order they are written:
\* the detectors carry a priority, the actions form the chain
EngineConfigs ==
    { [detectors |-> <<[name |-> "d1", priority |-> p[1]],
                       [name |-> "d2", priority |-> p[2]],
                       [name |-> "d3", priority |-> p[3]]>>,
       actions   |-> <<"a1", "a2">>] : p \in [1..3 -> Priorities] }

\* a record put into a list sorted by priority, behind its equals
RECURSIVE InsertByPriority(_, _)
InsertByPriority(x, sorted) ==
    IF sorted = << >> THEN <<x>>
    ELSE IF x.priority < Head(sorted).priority THEN <<x>> \o sorted
    ELSE <<Head(sorted)>> \o InsertByPriority(x, Tail(sorted))

\* the detectors in configured priority order: lower priority value first,
\* equal priorities in the order of the configuration
RECURSIVE PriorityOrder(_, _)
PriorityOrder(list, n) ==
    IF n = 0 THEN << >>
    ELSE InsertByPriority(list[n], PriorityOrder(list, n - 1))

\* a chain that runs every plugin whatever the earlier ones returned
RECURSIVE RunChainNoShortCircuit(_, _)
RunChainNoShortCircuit(names, outcome) ==
    IF names = << >> THEN << >>
    ELSE <<Head(names)>> \o RunChainNoShortCircuit(Tail(names), outcome)

\* the plugins a chain runs: one after the other until one returns Stop; a
\* failure is not a Stop, the chain continues with the next plugin
RECURSIVE RunChain(_, _)
RunChain(names, outcome) ==
    IF names = << >> THEN << >>
    ELSE IF outcome[Head(names)] = "Stop" THEN <<Head(names)>>
    ELSE <<Head(names)>> \o RunChain(Tail(names), outcome)

\* some plugin of the list that was run returned Stop
AnyStop(ran, outcome) == \E i \in 1..Len(ran) : outcome[ran[i]] = "Stop"

InitLoop ==
    /\ comp = "loop"
    /\ eng \in EngineConfigs
    /\ tick = None
    /\ DetIdle
    /\ SrcIdle
    /\ ActIdle
    /\ RegIdle /\ MgdIdle /\ UseIdle

\* steps (3) and (4) of a tick: the detectors, then the action chain if a
\* detector returned Stop
Tick ==
    /\ comp = "loop"
    /\ \E outcome \in [DetectorNames \cup ActionNames -> RunOutcomes] :
         LET sorted   == PriorityOrder(eng.detectors, Len(eng.detectors))
             order    == [i \in 1..Len(sorted) |-> sorted[i].name]
             detected == RunChain(order, outcome)
             acted    == IF AnyStop(detected, outcome)
                         THEN RunChain(eng.actions, outcome)
                         ELSE << >>
         IN  tick' = [outcome |-> outcome, detectors_run |-> detected,
                      actions_run |-> acted]
    /\ UNCHANGED <<comp, eng, detVars, srcVars, actVars, regVars, mgd, useVars>>

NextLoop == Tick

SpecLoop == InitLoop /\ [][NextLoop]_vars

-----------------------------------------------------------------------------
(* BasePlugin and PluginWithContext::run_with_context                       *)
(* (src/plugins/base.rs)                                                    *)

\* record_success and record_error calls made on one BasePlugin
MaxRecorded == 2

\* PluginExecutionResult: result and message; ran tells what the plugin's
\* own run returned, "not run" when run_with_context did not call it
ExecutionResult(result, message, ran) ==
    [result |-> result, message |-> message, ran |-> ran]

\* a run_with_context that does not look at the enabled flag
RunWithContextIgnoringEnabled(base, outcome, exec_dry_run) ==
    IF exec_dry_run
    THEN ExecutionResult("Continue", "none", "not run")
    ELSE IF outcome = "Err"
    THEN ExecutionResult("Continue", "Plugin execution failed", outcome)
    ELSE ExecutionResult(outcome, "none", outcome)

\* run_with_context of a plugin whose run gives outcome
RunWithContext(base, outcome, exec_dry_run) ==
    IF ~base.enabled
    THEN ExecutionResult("Continue", "Plugin disabled", "not run")
    ELSE IF exec_dry_run
    THEN ExecutionResult("Continue", "none", "not run")
    ELSE IF outcome = "Err"
    THEN ExecutionResult("Continue", "Plugin execution failed", outcome)
    ELSE ExecutionResult(outcome, "none", outcome)

\* BasePlugin::new
InitManaged ==
    /\ comp = "managed"
    /\ mgd = [enabled |-> TRUE, error_count |-> 0, success_count |-> 0, last |-> None]
    /\ DetIdle
    /\ SrcIdle
    /\ ActIdle
    /\ RegIdle /\ EngIdle /\ UseIdle

ManagedFrame == UNCHANGED <<comp, detVars, srcVars, actVars, regVars, engVars, useVars>>

Enable ==
    /\ comp = "managed"
    /\ mgd' = [mgd EXCEPT !.enabled = TRUE]
    /\ ManagedFrame

Disable ==
    /\ comp = "managed"
    /\ mgd' = [mgd EXCEPT !.enabled = FALSE]
    /\ ManagedFrame

RecordSuccess ==
    /\ comp = "managed"
    /\ mgd.success_count < MaxRecorded
    /\ mgd' = [mgd EXCEPT !.success_count = @ + 1]
    /\ ManagedFrame

RecordError ==
    /\ comp = "managed"
    /\ mgd.error_count < MaxRecorded
    /\ mgd' = [mgd EXCEPT !.error_count = @ + 1]
    /\ ManagedFrame

\* run_with_context takes &self: the counters are not touched
ManagedRun ==
    /\ comp = "managed"
    /\ \E outcome \in RunOutcomes, exec_dry_run \in BOOLEAN :
         mgd' = [mgd EXCEPT !.last = RunWithContext(mgd, outcome, exec_dry_run)]
    /\ ManagedFrame

NextManaged ==
    \/ Enable
    \/ Disable
    \/ RecordSuccess
    \/ RecordError
    \/ ManagedRun

SpecManaged == InitManaged /\ [][NextManaged]_vars

-----------------------------------------------------------------------------
(* PluginRegistry (src/plugins/registry.rs)                                 *)

\* plugin names, a sequence of pieces so that starts_with is a computation
NameMemoryPressureDetector == <<"memory_pressure", "_detector">>

NameKillAction == <<"kill", "_action">>

NameCustom == <<"custom">>

\* the names of the plugins handed to the register calls
RegNames == {NameMemoryPressureDetector, NameKillAction, NameCustom}

\* str::starts_with
StartsWith(name, prefix) ==
    /\ Len(name) >= Len(prefix)
    /\ SubSeq(name, 1, Len(prefix)) = prefix

\* PluginConfig records handed to load_from_config
ConfigNames == {<<"memory_pressure">>, NameKillAction, <<"no_such_plugin">>}

PluginTypes == {"Detector", "Action", "Hybrid"}

PluginConfigs ==
    [name : ConfigNames, plugin_type : PluginTypes, enabled : BOOLEAN]

ConfigLists ==
    {<< >>} \cup {<<a>> : a \in PluginConfigs}
            \cup {<<a, b>> : a \in PluginConfigs, b \in PluginConfigs}

\* PluginRegistry::new
EmptyRegistry ==
    [plugins |-> {}, detectors |-> {}, actions |-> {}, metadata |-> {}]

\* register_plugin: the general map; neither downcast_ref to an
\* Arc<dyn DetectorPlugin> or Arc<dyn ActionPlugin> can match the plugin
RegisterPluginIn(r, name) ==
    [r EXCEPT !.plugins = @ \cup {name}]

RegisterDetectorIn(r, name) ==
    [r EXCEPT !.plugins = @ \cup {name}, !.detectors = @ \cup {name}]

RegisterActionIn(r, name) ==
    [r EXCEPT !.plugins = @ \cup {name}, !.actions = @ \cup {name}]

\* an unregister that takes the name out of the general map only
UnregisterGeneralOnly(r, name) ==
    [r EXCEPT !.plugins = @ \ {name}]

UnregisterPluginIn(r, name) ==
    [r EXCEPT !.plugins = @ \ {name}, !.detectors = @ \ {name},
              !.actions = @ \ {name}, !.metadata = @ \ {name}]

\* one record of load_from_config: the registry afterwards, and whether the
\* record registered a plugin
LoadRecord(r, c) ==
    IF ~c.enabled THEN [reg |-> r, registered |-> FALSE]
    ELSE IF c.plugin_type = "Detector" /\ StartsWith(c.name, <<"memory_pressure">>)
    THEN [reg |-> RegisterDetectorIn(r, NameMemoryPressureDetector), registered |-> TRUE]
    ELSE IF c.plugin_type = "Action" /\ StartsWith(c.name, <<"kill">>)
    THEN [reg |-> RegisterActionIn(r, NameKillAction), registered |-> TRUE]
    ELSE [reg |-> r, registered |-> FALSE]

\* load_from_config over the first n records: the registry afterwards, the
\* enabled records that registered nothing, the return value
RECURSIVE LoadFromConfigUpTo(_, _, _)
LoadFromConfigUpTo(r, config, n) ==
    IF n = 0 THEN [reg |-> r, skipped |-> {}, ret |-> Ok("unit")]
    ELSE LET sofar == LoadFromConfigUpTo(r, config, n - 1)
             one   == LoadRecord(sofar.reg, config[n])
         IN  [reg     |-> one.reg,
              skipped |-> sofar.skipped \cup
                            (IF config[n].enabled /\ ~one.registered
                             THEN {config[n]} ELSE {}),
              ret     |-> Ok("unit")]

InitRegistry ==
    /\ comp = "registry"
    /\ reg = EmptyRegistry
    /\ rlast = None
    /\ DetIdle
    /\ SrcIdle
    /\ ActIdle
    /\ EngIdle /\ MgdIdle /\ UseIdle

RegistryFrame == UNCHANGED <<comp, detVars, srcVars, actVars, engVars, mgd, useVars>>

\* a register or unregister call: what it was, on which name, whether the
\* name was registered before, the return value
Called(op, name) ==
    [op |-> op, name |-> name, present |-> name \in reg.plugins, ret |-> Ok("unit")]

RegisterPlugin ==
    /\ comp = "registry"
    /\ \E name \in RegNames :
         /\ reg' = RegisterPluginIn(reg, name)
         /\ rlast' = Called("register_plugin", name)
    /\ RegistryFrame

RegisterDetector ==
    /\ comp = "registry"
    /\ \E name \in RegNames :
         /\ reg' = RegisterDetectorIn(reg, name)
         /\ rlast' = Called("register_detector", name)
    /\ RegistryFrame

RegisterAction ==
    /\ comp = "registry"
    /\ \E name \in RegNames :
         /\ reg' = RegisterActionIn(reg, name)
         /\ rlast' = Called("register_action", name)
    /\ RegistryFrame

UnregisterPlugin ==
    /\ comp = "registry"
    /\ \E name \in RegNames :
         /\ reg' = UnregisterPluginIn(reg, name)
         /\ rlast' = Called("unregister_plugin", name)
    /\ RegistryFrame

LoadFromConfig ==
    /\ comp = "registry"
    /\ \E config \in ConfigLists :
         LET r == LoadFromConfigUpTo(reg, config, Len(config))
         IN  /\ reg' = r.reg
             /\ rlast' = [op |-> "load_from_config", skipped |-> r.skipped,
                          ret |-> r.ret]
    /\ RegistryFrame

NextRegistry ==
    \/ RegisterPlugin
    \/ RegisterDetector
    \/ RegisterAction
    \/ UnregisterPlugin
    \/ LoadFromConfig

SpecRegistry == InitRegistry /\ [][NextRegistry]_vars

-----------------------------------------------------------------------------
(* Memory-usage detector (src/plugins/detectors/memory_usage.rs)            *)

\* the default threshold_bytes of MemoryUsageDetector::new: 1 GiB
DefaultThresholdBytes == 1024 * 1024 * 1024

UsageThresholds == {60, DefaultThresholdBytes}

\* threshold_percentage: not set, or a whole number of percent
UsagePercentages == {None, Some(29), Some(50)}

\* CgroupContext as the detector reads it: memory_usage and memory_limit
UsageCgroups ==
    [memory_usage : {None, Some(29), Some(80)},
     memory_limit : {None, Some(0), Some(100)}]

\* the second cgroup of a context
UsageSiblings ==
    { [memory_usage |-> None,     memory_limit |-> None],
      [memory_usage |-> Some(29), memory_limit |-> Some(100)],
      [memory_usage |-> Some(80), memory_limit |-> Some(100)] }

\* OomdContext::cgroups, relative path -> CgroupContext
UsageContexts ==
    { [p \in {PathSvcA} |-> a] : a \in UsageCgroups }
    \cup { [p \in {PathSvcA, PathSvcB} |-> IF p = PathSvcA THEN a ELSE b] :
              a \in UsageCgroups, b \in UsageSiblings }

\* the pairs <<usage, limit>> whose f64 value of (usage / limit) * 100.0 lies
\* under the exact one: (29.0 / 100.0) * 100.0 = 28.999999999999996
PercentageRoundsBelow == {<<29, 100>>}

\* (usage as f64 / limit as f64) * 100.0 >= percentage as f64, limit > 0
UsagePercentageAtLeast(usage, limit, percentage) ==
    IF <<usage, limit>> \in PercentageRoundsBelow
    THEN usage * 100 > percentage * limit
    ELSE usage * 100 >= percentage * limit

\* MemoryUsageDetector::check_usage_threshold
CheckUsageThreshold(d, ctx, path) ==
    IF path \notin DOMAIN ctx THEN Err("CgroupNotFound")
    ELSE IF ~IsSome(ctx[path].memory_usage) THEN Err("PressureUnavailable")
    ELSE
        LET usage == ctx[path].memory_usage.v
            limit == ctx[path].memory_limit
            absolute_exceeded == usage >= d.threshold_bytes
            percentage_exceeded ==
                IF IsSome(d.threshold_percentage)
                THEN IF IsSome(limit)
                     THEN IF limit.v = 0 THEN FALSE
                          ELSE UsagePercentageAtLeast(usage, limit.v,
                                                      d.threshold_percentage.v)
                     ELSE FALSE
                ELSE FALSE
        IN  Ok(absolute_exceeded \/ percentage_exceeded)

\* MemoryUsageDetector::find_matching_cgroups
UsageFindMatchingCgroups(d, ctx) ==
    {p \in DOMAIN ctx : d.cgroup_pattern = Star \/ Contains(p, d.cgroup_pattern)}

\* a loop over the matching cgroups that ends at the first cgroup whose
\* check fails
RECURSIVE UsageTriggeredUntilError(_, _, _)
UsageTriggeredUntilError(d, ctx, order) ==
    IF order = << >> THEN << >>
    ELSE LET r == CheckUsageThreshold(d, ctx, Head(order))
         IN  IF ~IsOk(r) THEN << >>
             ELSE (IF r = Ok(TRUE) THEN <<Head(order)>> ELSE << >>)
                  \o UsageTriggeredUntilError(d, ctx, Tail(order))

\* the cgroups of `order` for which check_usage_threshold gave Ok(true)
UsageTriggered(d, ctx, order) ==
    SelectSeq(order, LAMBDA p : CheckUsageThreshold(d, ctx, p) = Ok(TRUE))

\* MemoryUsageDetector::new with its BasePlugin enabled or not, then the
\* builders or init(config)
UsageDetectors(enabled) ==
    { [enabled |-> enabled, threshold_bytes |-> th, threshold_percentage |-> pc,
       cgroup_pattern |-> pat, status |-> << >>] :
         th \in UsageThresholds, pc \in UsagePercentages, pat \in DetPatterns }

InitUsage ==
    /\ comp = "usage"
    /\ udet \in UsageDetectors(TRUE)
    /\ ulast = None
    /\ DetIdle
    /\ SrcIdle
    /\ ActIdle
    /\ RegIdle /\ EngIdle /\ MgdIdle

\* MemoryUsageDetector::run
UsageRun ==
    /\ comp = "usage"
    /\ \E ctx \in UsageContexts :
         \E order \in Orders(UsageFindMatchingCgroups(udet, ctx)) :
           LET trig == UsageTriggered(udet, ctx, order)
               ret  == IF ~udet.enabled THEN "Continue"
                       ELSE IF trig # << >> THEN "Stop" ELSE "Continue"
               status ==
                   IF ~udet.enabled THEN udet.status
                   ELSE IF trig # << >>
                        THEN [k \in {"triggered", "triggered_cgroups"} |->
                                 IF k = "triggered" THEN Some(TRUE) ELSE Some(trig)]
                        ELSE [k \in DOMAIN udet.status \cup {"triggered"} |->
                                 IF k = "triggered" THEN Some(FALSE) ELSE udet.status[k]]
           IN  /\ udet' = [udet EXCEPT !.status = status]
               /\ ulast' = [ctx |-> ctx, ret |-> ret]
    /\ UNCHANGED <<comp, detVars, srcVars, actVars, regVars, engVars, mgd>>

NextUsage == UsageRun

SpecUsage == InitUsage /\ [][NextUsage]_vars

-----------------------------------------------------------------------------
(* The plugins side by side: both detectors, and every plugin with its      *)
(* BasePlugin disabled                                                      *)

\* MemoryPressureDetector::new with its BasePlugin enabled or not, then the
\* builders or init(config) with the given thresholds and durations
InitDetectorWith(enabled, thresholds, durations) ==
    /\ comp = "detector"
    /\ \E th \in thresholds, du \in durations, pat \in DetPatterns :
           det = [enabled |-> enabled, threshold |-> th,
                  duration_seconds |-> du, cgroup_pattern |-> pat]
    /\ pressure_history = << >>
    /\ det_status = << >>
    /\ det_clock = 0
    /\ det_trace = << >>
    /\ SrcIdle
    /\ ActIdle
    /\ RegIdle /\ EngIdle /\ MgdIdle /\ UseIdle

\* either detector, enabled; the pressure detector with the durations 0 and
\* 1 s, the shortest with and without a waiting time
SpecDetectors ==
    (InitDetectorWith(TRUE, {70}, {0, 1}) \/ InitUsage)
        /\ [][NextDetector \/ NextUsage]_vars

\* MemoryUsageDetector::new, BasePlugin::disable
InitUsageDisabled ==
    /\ comp = "usage"
    /\ udet \in UsageDetectors(FALSE)
    /\ ulast = None
    /\ DetIdle
    /\ SrcIdle
    /\ ActIdle
    /\ RegIdle /\ EngIdle /\ MgdIdle

\* KillAction::new, BasePlugin::disable
InitKillDisabled ==
    /\ comp = "kill"
    /\ act = [enabled |-> FALSE, initialized |-> FALSE, config |-> EmptyKillConfig,
              kill_strategy |-> DefaultStrategy, dry_run |-> FALSE,
              max_kill_count |-> 1, kill_signal |-> 9]
    /\ world \in KillWorlds
    /\ alast = None
    /\ DetIdle
    /\ SrcIdle
    /\ RegIdle /\ EngIdle /\ MgdIdle /\ UseIdle

\* MemoryReclaimAction::new, BasePlugin::disable
InitReclaimDisabled ==
    /\ comp = "reclaim"
    /\ act = [enabled |-> FALSE, initialized |-> FALSE, config |-> EmptyReclaimConfig,
              reclaim_strategy |-> [kind |-> "DropCache"],
              reclaim_amount_bytes |-> 104857600, dry_run |-> FALSE,
              cgroup_manager |-> FALSE]
    /\ world \in ReclaimWorlds
    /\ alast = None
    /\ DetIdle
    /\ SrcIdle
    /\ RegIdle /\ EngIdle /\ MgdIdle /\ UseIdle

\* every plugin constructed and disabled; the plugin run through
\* run_with_context is disabled and enabled at will
SpecDisabled ==
    ( \/ InitDetectorWith(FALSE, {70}, {0})
      \/ InitUsageDisabled
      \/ InitKillDisabled
      \/ InitReclaimDisabled
      \/ InitManaged )
        /\ [][NextDetector \/ NextUsage \/ NextKill \/ NextReclaim \/ NextManaged]_vars

-----------------------------------------------------------------------------
(* cgroup_exists of the V1 and V2 sources                                   *)

\* what fs::metadata on a cgroup directory gives: the metadata, or an
\* io::Error of kind NotFound, PermissionDenied or another kind
MetadataOutcomes ==
    {Ok("metadata"), Err("NotFound"), Err("PermissionDenied"), Err("Other")}

\* the mount point the source joins the relative path to
MountOf(ver) == IF ver = "V1" THEN <<"memory_mount">> ELSE <<"unified_mount">>

\* get_memory_cgroup_path (V1), get_cgroup_path (V2)
DirOf(ver, rel) == MountOf(ver) \o <<"/">> \o rel

\* cgroup_exists: metadata(path).map(|_| true).map_err(|_| CgroupNotFound)
CgroupExists(ver, rel, d) ==
    LET m == d[DirOf(ver, rel)]
    IN  IF IsOk(m) THEN Ok(TRUE) ELSE Err("CgroupNotFound")

\* CgroupV1Interface::new / CgroupV2Interface::new, every cgroup directory
\* in place
InitExists ==
    /\ comp = "exists"
    /\ \E ver \in {"V1", "V2"} : src = [version |-> ver]
    /\ cache = << >>
    /\ disk = [p \in {DirOf(src.version, rel) : rel \in CgPaths} |-> Ok("metadata")]
    /\ src_clock = 0
    /\ advances = 0
    /\ last = None
    /\ DetIdle
    /\ ActIdle
    /\ RegIdle /\ EngIdle /\ MgdIdle /\ UseIdle

\* a cgroup directory is removed, created, or made unreachable
DirChange ==
    /\ comp = "exists"
    /\ \E p \in DOMAIN disk, o \in MetadataOutcomes :
         /\ o # disk[p]
         /\ disk' = [disk EXCEPT ![p] = o]
    /\ UNCHANGED <<comp, src, cache, src_clock, advances, last, detVars, actVars, newVars>>

\* one call of cgroup_exists
Exists ==
    /\ comp = "exists"
    /\ \E rel \in CgPaths :
         last' = [op |-> "cgroup_exists", rel |-> rel,
                  metadata |-> disk[DirOf(src.version, rel)],
                  res |-> CgroupExists(src.version, rel, disk)]
    /\ UNCHANGED <<comp, src, cache, disk, src_clock, advances, detVars, actVars, newVars>>

NextExists == DirChange \/ Exists

SpecExists == InitExists /\ [][NextExists]_vars

-----------------------------------------------------------------------------
(* list_cgroups of the V1 and V2 sources                                    *)

\* directory names, in pieces so that starts_with('.') is a computation
DirSvc == <<"svc">>

DirA == <<"a">>

DirDotCache == <<".", "cache">>

\* the names a directory directly under the root may have, and the names a
\* directory one level further down may have
TopNames == {DirSvc, DirA, DirDotCache}

SubNames == {DirA, DirDotCache}

\* a directory is the sequence of the names from the root down to it
AllDirs == {<<n>> : n \in TopNames} \cup {<<n, m>> : n \in TopNames, m \in SubNames}

\* the search patterns
ListPatterns == {<< >>, <<"a">>, <<"svc", "/">>}

\* name.starts_with('.')
StartsWithDot(name) == Head(name) = "."

\* format!("{}/{}", current_path, name), from the root down
RECURSIVE RelativeOf(_)
RelativeOf(dir) ==
    IF Len(dir) = 1 THEN dir[1]
    ELSE RelativeOf(SubSeq(dir, 1, Len(dir) - 1)) \o <<"/">> \o dir[Len(dir)]

\* find_cgroups_recursive from the entry order[i] of directory `current` on:
\* entries that are not directories and names that start with '.' are
\* passed over, a directory that cannot be read ends the search with Io
RECURSIVE FindCgroupsRecursive(_, _, _, _, _, _)
FindCgroupsRecursive(tree, current, pattern, order, i, results) ==
    IF i > Len(order) THEN Ok(results)
    ELSE LET name  == order[i]
             child == Append(current, name)
         IN  IF child \notin tree.dirs \/ StartsWithDot(name)
             THEN FindCgroupsRecursive(tree, current, pattern, order, i + 1, results)
             ELSE LET found == IF pattern = << >> \/ Contains(RelativeOf(child), pattern)
                               THEN Append(results, RelativeOf(child))
                               ELSE results
                      below == IF child \in tree.unreadable THEN Err("Io")
                               ELSE FindCgroupsRecursive(tree, child, pattern, order, 1, found)
                  IN  IF ~IsOk(below) THEN below
                      ELSE FindCgroupsRecursive(tree, current, pattern, order, i + 1, below.v)

\* list_cgroups
ListCgroups(tree, pattern, order) ==
    IF << >> \in tree.unreadable THEN Err("Io")
    ELSE FindCgroupsRecursive(tree, << >>, pattern, order, 1, << >>)

\* CgroupV1Interface::new / CgroupV2Interface::new on an empty hierarchy
InitList ==
    /\ comp = "lister"
    /\ \E ver \in {"V1", "V2"} : src = [version |-> ver]
    /\ cache = << >>
    /\ disk = [dirs |-> {}, unreadable |-> {}]
    /\ src_clock = 0
    /\ advances = 0
    /\ last = None
    /\ DetIdle
    /\ ActIdle
    /\ RegIdle /\ EngIdle /\ MgdIdle /\ UseIdle

ListFrame == UNCHANGED <<comp, src, cache, src_clock, advances, detVars, actVars, newVars>>

\* mkdir of a cgroup whose parent exists; the record of the last call is
\* dropped whenever the tree changes
Mkdir ==
    /\ comp = "lister"
    /\ \E d \in AllDirs \ disk.dirs :
         /\ Len(d) > 1 => SubSeq(d, 1, Len(d) - 1) \in disk.dirs
         /\ disk' = [disk EXCEPT !.dirs = @ \cup {d}]
    /\ last' = None
    /\ ListFrame

\* rmdir of a cgroup without children
Rmdir ==
    /\ comp = "lister"
    /\ \E d \in disk.dirs :
         /\ \A e \in disk.dirs : Len(e) > Len(d) => SubSeq(e, 1, Len(d)) # d
         /\ disk' = [dirs |-> disk.dirs \ {d}, unreadable |-> disk.unreadable \ {d}]
    /\ last' = None
    /\ ListFrame

\* one directory, the root included, loses or regains its read permission
Chmod ==
    /\ comp = "lister"
    /\ IF disk.unreadable = {}
       THEN \E d \in disk.dirs \cup {<< >>} : disk' = [disk EXCEPT !.unreadable = {d}]
       ELSE disk' = [disk EXCEPT !.unreadable = {}]
    /\ last' = None
    /\ ListFrame

\* one call of list_cgroups; read_dir hands the entries out in any order
List ==
    /\ comp = "lister"
    /\ \E pattern \in ListPatterns, order \in Orders(TopNames) :
         last' = [op |-> "list_cgroups", pattern |-> pattern,
                  res |-> ListCgroups(disk, pattern, order)]
    /\ disk' = disk
    /\ ListFrame

NextList == Mkdir \/ Rmdir \/ Chmod \/ List

SpecList == InitList /\ [][NextList]_vars

-----------------------------------------------------------------------------
(* CgroupPath::new (src/cgroup/types.rs)                                    *)

\* a path is the sequence of its components, "/" first when it is absolute;
\* NonUtf8 is a directory name whose bytes are not valid UTF-8, Replaced is
\* that name with the bytes replaced by U+FFFD
NonUtf8 == "b\\xFF"

Replaced == "b\\u{FFFD}"

UnifiedMount == <<"/", "sys", "fs", "cgroup">>

MemoryMount == <<"/", "sys", "fs", "cgroup", "memory">>

PathHeads == {UnifiedMount, MemoryMount, <<"/", "proc">>, <<"sys", "fs", "cgroup">>}

PathNames == {"svc", "a", "memory", "..", NonUtf8}

PathInputs ==
    {h \o t : h \in PathHeads,
              t \in {<< >>} \cup {<<n>> : n \in PathNames}
                            \cup {<<n, m>> : n \in PathNames, m \in PathNames}}

\* OsStr::to_string_lossy of one component
ToStringLossy(component) == IF component = NonUtf8 THEN Replaced ELSE component

\* Path::to_string_lossy().to_string() of a relative path: the components
\* with "/" between them
RECURSIVE PathToString(_)
PathToString(components) ==
    IF components = << >> THEN << >>
    ELSE IF Len(components) = 1 THEN <<ToStringLossy(components[1])>>
    ELSE <<ToStringLossy(components[1]), "/">> \o PathToString(Tail(components))

\* the components of a relative path string
ComponentsOf(string) == SelectSeq(string, LAMBDA piece : piece # "/")

\* PathBuf::join of a root and a relative path string
Join(root, string) == root \o ComponentsOf(string)

\* Path::starts_with: component by component
PathStartsWith(path, root) ==
    Len(path) >= Len(root) /\ SubSeq(path, 1, Len(root)) = root

\* CgroupPath::new
CgroupPathNew(root, path) ==
    LET stripped == StripPrefix(root, path)
    IN  IF ~IsOk(stripped) THEN Err("InvalidPath")
        ELSE Ok([root |-> root, path |-> path,
                 relative_path |-> PathToString(stripped.v)])

\* CgroupManager::new: the root is the memory mount (V1) or the unified
\* mount (V2)
InitPath ==
    /\ comp = "path"
    /\ \E root \in {UnifiedMount, MemoryMount} : src = [root |-> root]
    /\ cache = << >>
    /\ disk = << >>
    /\ src_clock = 0
    /\ advances = 0
    /\ last = None
    /\ DetIdle
    /\ ActIdle
    /\ RegIdle /\ EngIdle /\ MgdIdle /\ UseIdle

\* CgroupManager::create_cgroup_path(path)
CreatePath ==
    /\ comp = "path"
    /\ \E path \in PathInputs :
         last' = [op |-> "create_cgroup_path", arg |-> path,
                  res |-> CgroupPathNew(src.root, path)]
    /\ UNCHANGED <<comp, src, cache, disk, src_clock, advances, detVars, actVars, newVars>>

NextPath == CreatePath

SpecPath == InitPath /\ [][NextPath]_vars

-----------------------------------------------------------------------------
(* The V1 source's pressure readers: get_vmstat_pressure and               *)
(* estimate_memory_pressure.  Pressures are in millionths of a percent.    *)

\* the value tokens of the four /proc/vmstat lines read; "-1" does not parse
\* as u64
VmstatScanKswapd == {0, 500, 1000, -1}

VmstatScanDirect == {0, 500}

VmstatStealKswapd == {0, 450, 900}

VmstatStealDirect == {0, 450}

\* memory.usage_in_bytes and memory.limit_in_bytes, in units of 100 MiB
V1Usages == {0, 1, 3}

V1Limits == {0, 1, 2}

\* parts[1].parse::<u64>().unwrap_or(0)
ParseU64OrZero(tok) == IF tok >= 0 THEN tok ELSE 0

\* the f32 products that lie above the exact ones, <<sec_10, tenths>> -> the
\* excess: 45 * 0.6 = 27.000002, 90 * 0.6 = 54.000004, 100 * 0.6 = 60.000004
F32Excess(x, k) ==
    IF k = 6 /\ x = 45 THEN 2
    ELSE IF k = 6 /\ x \in {90, 100} THEN 4
    ELSE 0

\* pressure_10 * 0.8 and pressure_10 * 0.6 in f32, pressure_10 a whole percent
F32Product(x, k) == x * k * 100000 + F32Excess(x, k)

\* CgroupV1Interface::get_vmstat_pressure on the parsed lines
GetVmstatPressure(v) ==
    LET pgscan  == ParseU64OrZero(v.pgscan_kswapd) + ParseU64OrZero(v.pgscan_direct)
        pgsteal == ParseU64OrZero(v.pgsteal_kswapd) + ParseU64OrZero(v.pgsteal_direct)
        pressure_10 == IF pgscan > 0 THEN Min2(100, (100 * pgsteal) \div pgscan)
                       ELSE 0
    IN  [sec_10  |-> pressure_10 * 1000000,
         sec_60  |-> F32Product(pressure_10, 8),
         sec_300 |-> F32Product(pressure_10, 6),
         total   |-> None]

\* what the V1 accessors read from the files of the state
V1Files(d) ==
    [usage  |-> Ok(d.usage),
     limit  |-> Ok(d.limit),
     vmstat |-> Ok(GetVmstatPressure(d.vmstat))]

\* CgroupV1Interface::new with an empty cache, over the files drawn
InitV1Pressure ==
    /\ comp = "v1pressure"
    /\ src = [version |-> "V1"]
    /\ cache = << >>
    /\ \E u \in V1Usages, l \in V1Limits,
          sk \in VmstatScanKswapd, sd \in VmstatScanDirect,
          tk \in VmstatStealKswapd, td \in VmstatStealDirect :
         disk = [usage |-> u, limit |-> l,
                 vmstat |-> [pgscan_kswapd |-> sk, pgscan_direct |-> sd,
                             pgsteal_kswapd |-> tk, pgsteal_direct |-> td]]
    /\ src_clock = 0
    /\ advances = 0
    /\ last = None
    /\ DetIdle
    /\ ActIdle
    /\ RegIdle /\ EngIdle /\ MgdIdle /\ UseIdle

V1PressureFrame == UNCHANGED <<comp, src, disk, src_clock, advances, detVars, actVars, newVars>>

\* get_system_memory_pressure()
SystemPressure ==
    /\ comp = "v1pressure"
    /\ LET o == GetSystemMemoryPressureV1(cache, src_clock, V1Files(disk))
       IN  /\ cache' = o.c
           /\ last' = [op |-> "get_system_memory_pressure", res |-> o.res]
    /\ V1PressureFrame

\* get_memory_pressure(cgroup)
CgroupPressure ==
    /\ comp = "v1pressure"
    /\ LET o == GetMemoryPressure("V1", cache, <<"svc">>, src_clock, V1Files(disk))
       IN  /\ cache' = o.c
           /\ last' = [op |-> "get_memory_pressure", res |-> o.res]
    /\ V1PressureFrame

NextV1Pressure == SystemPressure \/ CgroupPressure

SpecV1Pressure == InitV1Pressure /\ [][NextV1Pressure]_vars

-----------------------------------------------------------------------------
(* PSI parsing: PsiData::from_line and the V2 source's read_psi.  A token  *)
(* is its key and the pieces that follow each '=' in it; a piece is a      *)
(* decimal number (in hundredths), an unsigned integer or other text.      *)

Decimal(v) == [kind |-> "decimal", v |-> v]

Unsigned(v) == [kind |-> "integer", v |-> v]

Text == [kind |-> "text", v |-> 0]

Word(w) == [key |-> w, vals |-> << >>]

Field(k, val) == [key |-> k, vals |-> <<val>>]

\* field.split('=') gives kv.len() pieces
KvLen(tok) == 1 + Len(tok.vals)

\* kv[1].parse::<f32>(), the value kept in hundredths
ParseF32(val) ==
    IF val.kind = "decimal" THEN Ok(val.v)
    ELSE IF val.kind = "integer" THEN Ok(100 * val.v)
    ELSE Err("Parse")

\* PsiData::parse_float_field
ParseFloatField(tok) ==
    IF KvLen(tok) # 2 THEN Err("Parse") ELSE ParseF32(tok.vals[1])

\* PsiData::parse_u64_field
ParseU64Field(tok) ==
    IF KvLen(tok) # 2 THEN Err("Parse")
    ELSE IF tok.vals[1].kind = "integer" THEN Ok(Some(tok.vals[1].v))
    ELSE Ok(None)

\* PsiData::from_line on the whitespace-separated tokens of its argument
FromLine(parts) ==
    IF Len(parts) < 4 THEN Err("Parse")
    ELSE LET avg10  == ParseFloatField(parts[2])
             avg60  == ParseFloatField(parts[3])
             avg300 == ParseFloatField(parts[4])
             total  == IF Len(parts) > 4 THEN ParseU64Field(parts[5]) ELSE Ok(None)
         IN  IF ~IsOk(avg10) THEN avg10
             ELSE IF ~IsOk(avg60) THEN avg60
             ELSE IF ~IsOk(avg300) THEN avg300
             ELSE IF ~IsOk(total) THEN total
             ELSE Ok([avg10 |-> avg10.v, avg60 |-> avg60.v, avg300 |-> avg300.v,
                      total |-> total.v])

\* PsiData::to_resource_pressure
ToResourcePressure(psi) ==
    [sec_10 |-> psi.avg10, sec_60 |-> psi.avg60, sec_300 |-> psi.avg300,
     total |-> psi.total]

\* content.split_whitespace(): the tokens of all lines, in order
RECURSIVE SplitWhitespace(_)
SplitWhitespace(lines) ==
    IF lines = << >> THEN << >> ELSE Head(lines) \o SplitWhitespace(Tail(lines))

FileMemoryPressure == "memory.pressure"

FileMemoryPressureFull == "memory.pressure.full"

\* read_psi(cgroup, PressureType::Full) over the files of the cgroup directory
ReadPsiFull(dir) ==
    IF dir[FileMemoryPressureFull] = None THEN Err("Io")
    ELSE LET psi == FromLine(SplitWhitespace(dir[FileMemoryPressureFull].v))
         IN  IF IsOk(psi) THEN Ok(ToResourcePressure(psi.v)) ELSE psi

\* the lines of a pressure file
PsiLine(kind, a, b, c, t) ==
    <<Word(kind), Field("avg10", Decimal(a)), Field("avg60", Decimal(b)),
      Field("avg300", Decimal(c)), Field("total", Unsigned(t))>>

SomeLine == PsiLine("some", 22, 17, 111, 58761459)

FullLine == PsiLine("full", 10, 5, 3, 1234)

PsiContents == {<<SomeLine, FullLine>>, <<SomeLine>>, <<FullLine>>, << >>}

\* the lines handed to from_line
PsiLines ==
    { SomeLine, FullLine,
      SubSeq(SomeLine, 1, 4),
      SubSeq(SomeLine, 1, 3),
      <<Word("some")>>,
      << >>,
      <<Word("some"), Field("avg10", Unsigned(1)), Field("avg60", Unsigned(2)),
        Field("avg300", Unsigned(3))>>,
      <<Word("some"), Field("avg10", Decimal(22)), Field("avg60", Decimal(17)),
        Field("avg300", Decimal(111)), Field("total", Text)>>,
      <<Word("some"), Field("avg10", Decimal(22)), Field("avg60", Decimal(17)),
        Field("avg300", Decimal(111)), Field("total", Decimal(15))>>,
      <<Word("some"), Field("avg10", Decimal(22)), Field("avg60", Decimal(17)),
        Field("avg300", Decimal(111)), Word("total")>>,
      <<Word("some"), Field("avg10", Decimal(22)), Field("avg60", Decimal(17)),
        Field("total", Unsigned(7))>>,
      <<Word("some"), Field("avg10", Text), Field("avg60", Decimal(17)),
        Field("avg300", Decimal(111)), Field("total", Unsigned(7))>>,
      <<Word("some"), Field("avg10", Decimal(22)), Word("avg60"),
        Field("avg300", Decimal(111))>>,
      <<Word("some"), Field("avg10", Decimal(22)), Field("avg60", Decimal(17)),
        [key |-> "avg300", vals |-> <<Decimal(1), Decimal(2)>>]>> }

\* CgroupV2Interface::new with an empty cache; the cgroup directory holds
\* memory.pressure and may hold a file named memory.pressure.full
InitPsi ==
    /\ comp = "psi"
    /\ src = [version |-> "V2"]
    /\ cache = << >>
    /\ \E p \in {None} \cup {Some(c) : c \in PsiContents},
          f \in {None, Some(<<FullLine>>), Some(<<SomeLine, FullLine>>)} :
         disk = [n \in {FileMemoryPressure, FileMemoryPressureFull} |->
                    IF n = FileMemoryPressure THEN p ELSE f]
    /\ src_clock = 0
    /\ advances = 0
    /\ last = None
    /\ DetIdle
    /\ ActIdle
    /\ RegIdle /\ EngIdle /\ MgdIdle /\ UseIdle

PsiFrame == UNCHANGED <<comp, src, disk, src_clock, advances, detVars, actVars, newVars>>

\* CgroupV2Interface::get_memory_pressure(cgroup)
PsiMemoryPressure ==
    /\ comp = "psi"
    /\ LET o == GetMemoryPressure("V2", cache, <<"svc">>, src_clock,
                                  [pressure |-> ReadPsiFull(disk)])
       IN  /\ cache' = o.c
           /\ last' = [op |-> "get_memory_pressure", res |-> o.res]
    /\ PsiFrame

\* PsiData::from_line(line)
ParseLine ==
    /\ comp = "psi"
    /\ \E line \in PsiLines :
         last' = [op |-> "from_line", line |-> line, res |-> FromLine(line)]
    /\ cache' = cache
    /\ PsiFrame

NextPsi == PsiMemoryPressure \/ ParseLine

SpecPsi == InitPsi /\ [][NextPsi]_vars

-----------------------------------------------------------------------------
(* Concurrent lookups of one key: get_cache taken apart at its await       *)
(* points.  `last` holds each task's position, the entry it has built,     *)
(* the time the files behind each cache entry were read, the entry of the  *)
(* latest insert and the last return.                                      *)

Tasks == {1, 2}

ConcurrentFields == {"memory_usage", "memory_pressure"}

\* the key a lookup of the state's field uses
LookupKey == Key(src.field, src.rel)

\* the closure of the field's accessor, run on the cache as it is now (the
\* nested lookups of the V1 estimate run without interruption)
Closure ==
    IF src.version = "V1" /\ src.field = "memory_pressure"
    THEN EstimateMemoryPressure(cache, src.rel, src_clock, disk)
    ELSE ReadFile(cache, disk, IF src.field = "memory_usage" THEN "usage" ELSE "pressure")

\* the keys and TTLs of the lookups nested in the V1 estimate
NestedKeys ==
    IF src.version = "V1" /\ src.field = "memory_pressure"
    THEN {<<Key("memory_usage", src.rel), TtlMemoryUsage>>,
          <<Key("memory_limit", src.rel), TtlMemoryLimit>>,
          <<SystemMemoryPressureKey, TtlSystemPressure>>}
    ELSE {}

\* when the oldest file content behind the value the closure gives was read
ReadTime ==
    LET times == {src_clock} \cup
                 {last.born[n[1]] : n \in {m \in NestedKeys :
                                              Fresh(cache, m[1], m[2], src_clock)}}
    IN  CHOOSE t \in times : \A u \in times : t <= u

\* the read times after the closure has run: a nested miss has read now
BornAfterClosure ==
    LET missed == {n[1] : n \in {m \in NestedKeys : ~Fresh(cache, m[1], m[2], src_clock)}}
    IN  [k \in DOMAIN last.born \cup missed |->
            IF k \in missed THEN src_clock ELSE last.born[k]]

\* CgroupV1Interface::new / CgroupV2Interface::new, two tasks sharing it
InitConcurrent ==
    /\ comp = "tasks"
    /\ \E ver \in {"V1", "V2"}, field \in ConcurrentFields :
           src = [version |-> ver, rel |-> <<"svc">>, field |-> field]
    /\ cache = << >>
    /\ disk = GoodDisk
    /\ src_clock = 0
    /\ advances = 0
    /\ last = [pc |-> [t \in Tasks |-> "idle"],
               entry |-> [t \in Tasks |-> None],
               read_at |-> [t \in Tasks |-> 0],
               born |-> << >>,
               written |-> None,
               ret |-> None]
    /\ DetIdle
    /\ ActIdle
    /\ RegIdle /\ EngIdle /\ MgdIdle /\ UseIdle

ConcurrentFrame == UNCHANGED <<comp, src, detVars, actVars, newVars>>

\* time passes between two steps of the tasks
ClockAdvance ==
    /\ comp = "tasks"
    /\ advances < MaxAdvances
    /\ advances' = advances + 1
    /\ \E s \in TimeSteps : src_clock' = src_clock + s
    /\ UNCHANGED <<cache, disk, last>>
    /\ ConcurrentFrame

\* the kernel changes memory.current / memory.usage_in_bytes
UsageChange ==
    /\ comp = "tasks"
    /\ \E o \in {Ok(100), Ok(200)} :
         /\ o # disk["usage"]
         /\ disk' = [disk EXCEPT !["usage"] = o]
    /\ UNCHANGED <<cache, src_clock, advances, last>>
    /\ ConcurrentFrame

\* get_cache up to drop(cache): under the read lock, a fresh entry is
\* returned, otherwise the task goes on to run the closure
LookupBegin(t) ==
    /\ comp = "tasks"
    /\ last.pc[t] = "idle"
    /\ IF Fresh(cache, LookupKey, Ttl(src.field), src_clock)
          /\ cache[LookupKey].variant \in HitVariants(src.version)
       THEN last' = [last EXCEPT !.ret = [task |-> t, hit |-> TRUE, at |-> src_clock,
                                          res |-> Ok(cache[LookupKey].data),
                                          read_at |-> last.born[LookupKey]]]
       ELSE last' = [last EXCEPT !.pc[t] = "reading"]
    /\ UNCHANGED <<cache, disk, src_clock, advances>>
    /\ ConcurrentFrame

\* let data = f.await?; and the CacheEntry built from it, timestamp now
LookupRead(t) ==
    /\ comp = "tasks"
    /\ last.pc[t] = "reading"
    /\ LET o == Closure
       IN  /\ cache' = o.c
           /\ IF IsOk(o.res)
              THEN last' = [last EXCEPT
                              !.pc[t] = "inserting",
                              !.entry[t] = Some([data |-> o.res.v,
                                                 variant |-> CacheVariant(src.version,
                                                                 TypeOf(src.field), LookupKey),
                                                 timestamp |-> src_clock,
                                                 ttl |-> Ttl(src.field)]),
                              !.read_at[t] = ReadTime,
                              !.born = BornAfterClosure]
              ELSE last' = [last EXCEPT
                              !.pc[t] = "idle",
                              !.born = BornAfterClosure,
                              !.ret = [task |-> t, hit |-> FALSE, at |-> src_clock,
                                       res |-> o.res, read_at |-> src_clock]]
    /\ UNCHANGED <<disk, src_clock, advances>>
    /\ ConcurrentFrame

\* self.cache.write().await.insert(key, entry); Ok(data)
LookupInsert(t) ==
    /\ comp = "tasks"
    /\ last.pc[t] = "inserting"
    /\ cache' = CachePut(cache, LookupKey, last.entry[t].v)
    /\ last' = [last EXCEPT
                  !.pc[t] = "idle",
                  !.born = [k \in DOMAIN last.born \cup {LookupKey} |->
                               IF k = LookupKey THEN last.read_at[t] ELSE last.born[k]],
                  !.written = last.entry[t],
                  !.ret = [task |-> t, hit |-> FALSE, at |-> src_clock,
                           res |-> Ok(last.entry[t].v.data),
                           read_at |-> last.read_at[t]]]
    /\ UNCHANGED <<disk, src_clock, advances>>
    /\ ConcurrentFrame

NextConcurrent ==
    \/ ClockAdvance
    \/ UsageChange
    \/ \E t \in Tasks : LookupBegin(t)
    \/ \E t \in Tasks : LookupRead(t)
    \/ \E t \in Tasks : LookupInsert(t)

SpecConcurrent == InitConcurrent /\ [][NextConcurrent]_vars

-----------------------------------------------------------------------------
(* KillAction on a context that lists a pid more than once (cgroup.procs   *)
(* may repeat a pid, and a process that changes cgroup while the context   *)
(* is assembled is listed in both)                                         *)

\* pid 1 is listed twice in cgroup a and once more in cgroup b
RepeatedContext ==
    [a |-> [pids |-> Some(<<1, 2, 1>>)],
     b |-> [pids |-> Some(<<3, 1>>)],
     c |-> [pids |-> None]]

RepeatedWorlds == {[w EXCEPT !.cgroups = RepeatedContext] : w \in KillWorlds}

\* KillAction::new, to be run on any of the contexts
InitKillRepeated ==
    /\ comp = "kill"
    /\ act = [enabled |-> TRUE, initialized |-> FALSE, config |-> EmptyKillConfig,
              kill_strategy |-> DefaultStrategy, dry_run |-> FALSE,
              max_kill_count |-> 1, kill_signal |-> 9]
    /\ world \in KillWorlds \cup RepeatedWorlds
    /\ alast = None
    /\ DetIdle
    /\ SrcIdle
    /\ RegIdle /\ EngIdle /\ MgdIdle /\ UseIdle

SpecKillRepeated == InitKillRepeated /\ [][NextKill]_vars

-----------------------------------------------------------------------------
(* Claims about the memory-pressure detector                               *)

\* calls 1..k were all made on one context holding only the matching cgroup
\* svc/a with pressure data: its weighted pressure is a constant
ConstantPressure(k) ==
    /\ DOMAIN det_trace[1].ctx = {PathSvcA}
    /\ IsSome(det_trace[1].ctx[PathSvcA])
    /\ \A i \in 1..k : det_trace[i].ctx = det_trace[1].ctx

\* C1: with duration_seconds >= 1 and a constant weighted pressure w on a
\* matching cgroup, call k returns Stop iff w >= threshold has held on every
\* call of the preceding duration_seconds, that is iff w >= threshold and
\* the first call lies at least duration_seconds back (tick 6 of 1 s ticks
\* for w = 85, threshold 70, duration 5).
C1_DurationGate ==
    (comp = "detector" /\ det.duration_seconds >= 1) =>
        \A k \in 1..Len(det_trace) :
            ConstantPressure(k) =>
                ( det_trace[k].ret = "Stop"
                  <=> /\ Weighted(det_trace[1].ctx[PathSvcA].v) >= 10 * det.threshold
                      /\ AsSecs(det_trace[k].t - det_trace[1].t) >= det.duration_seconds )

-----------------------------------------------------------------------------
(* Claims about the field cache and the assembler                          *)

\* the key of the field under test
TestKey == Key(src.field, src.rel)

\* the fields whose accessor reads one file and nothing else
DirectRead == Cardinality(FilesOf(src.version, src.field)) = 1 /\
              ~(src.version = "V1" /\ src.field \in {"io_pressure", "populated"})

TestFile == CHOOSE f \in FilesOf(src.version, src.field) : TRUE

\* a step that is an accessor call
LookupStep == comp = "source" /\ last' # last

C3_MissStores ==
    [][ ( /\ LookupStep
          /\ ~Fresh(cache, TestKey, Ttl(src.field), src_clock)
          /\ \A f \in FilesOf(src.version, src.field) : IsOk(disk[f]) )
        => /\ IsOk(last'.res)
           /\ TestKey \in DOMAIN cache'
           /\ cache'[TestKey].data = last'.res.v
           /\ DirectRead => last'.res = disk[TestFile] ]_vars

\* C4: get_cgroup_context returns Ok whatever the nine reads do; a field is
\* None exactly when its accessor failed and Some of the accessor's value
\* otherwise, so a field whose file cannot be read is None; with
\* memory.current readable and memory.max unreadable memory_usage is Some,
\* memory_limit is None and the context is valid.
C4_AssemblyNeverFails ==
    (comp = "assembler" /\ last # None) =>
        /\ IsOk(last.out)
        /\ \A f \in Fields :
              /\ IsOk(last.results[f].res)
                    => last.out.v[f] = Some(last.results[f].res.v)
              /\ ~IsOk(last.results[f].res) => last.out.v[f] = None
              /\ (\E file \in FilesOf(src.version, f) : ~IsOk(disk[file]))
                    => last.out.v[f] = None
        /\ (IsOk(disk["usage"]) /\ disk["limit"] = Err("Io"))
              => /\ IsSome(last.out.v["memory_usage"])
                 /\ last.out.v["memory_limit"] = None
                 /\ IsValid(last.out.v)

C4_Witness ==
    /\ comp = "assembler"
    /\ last # None
    /\ IsOk(disk["usage"])
    /\ disk["limit"] = Err("Io")
    /\ last.results["memory_limit"].res = Err("Io")
    /\ IsOk(last.out)
    /\ last.out.v["memory_usage"] = Some(100)
    /\ last.out.v["memory_limit"] = None

-----------------------------------------------------------------------------
(* Claims about the kill and reclaim actions                               *)

KillRan == comp = "kill" /\ alast # None /\ alast.op = "run" /\ act.enabled

\* the pids listed for a cgroup of the context
PidsOf(w, path) ==
    IF path \in DOMAIN w.cgroups /\ IsSome(w.cgroups[path].pids)
    THEN SeqToSet(w.cgroups[path].pids.v) ELSE {}

\* the readable processes find_targets chooses among
Candidates ==
    LET from == IF act.kill_strategy.kind = "CgroupTarget"
                THEN {act.kill_strategy.cgroup_path} ELSE DOMAIN world.cgroups
    IN  {pid \in UNION {PidsOf(world, path) : path \in from} : pid \in DOMAIN world.proc}

SortKey(process) ==
    IF act.kill_strategy.kind \in {"HighestOomScore", "LowestOomScore"}
    THEN process.oom_score ELSE process.memory_usage

\* a may stand before b in the order of the configured strategy
InStrategyOrder(a, b) ==
    IF act.kill_strategy.kind \in {"Oldest", "LowestOomScore"}
    THEN SortKey(a) <= SortKey(b) ELSE SortKey(a) >= SortKey(b)

C6_OrderIndependent ==
    (KillRan /\ act.kill_strategy.kind # "CgroupTarget") =>
        \A order \in Orders(DOMAIN world.cgroups) :
            FindTargets(act, world, order) = alast.targets

ActionRan == comp \in {"kill", "reclaim"} /\ alast # None /\ alast.op = "run"

\* C7: a run with dry_run set changes nothing outside: KillAction sends no
\* signal and has a Skipped result for every selected process;
\* MemoryReclaimAction, whatever its strategy, writes neither drop_caches nor
\* memory.reclaim.
C7_DryRunNoEffect ==
    (ActionRan /\ act.dry_run) =>
        IF comp = "kill"
        THEN /\ alast.sent = << >>
             /\ Len(alast.results) = Len(alast.targets)
             /\ \A i \in 1..Len(alast.results) : alast.results[i] = "Skipped"
        ELSE alast.effects = << >>

C7_Witness ==
    /\ ActionRan
    /\ comp = "kill"
    /\ act.enabled
    /\ act.dry_run
    /\ Len(alast.targets) = 2
    /\ alast.results = <<"Skipped", "Skipped">>
    /\ alast.sent = << >>

\* C8: init rejects a kill_signal that is no valid signal number with a
\* Config error.
C8_InvalidSignalRejected ==
    ( /\ comp = "kill"
      /\ alast # None
      /\ alast.op = "init"
      /\ ~ValidSignal(act.kill_signal) )
    => alast.ret = Err("Config")

\* the action was asked for cgroup_target, by with_strategy or by init
AskedCgroupTarget ==
    \/ act.kill_strategy.kind = "CgroupTarget"
    \/ IsSome(act.config.strategy) /\ act.config.strategy.v = "cgroup_target"

NamedCgroup ==
    IF IsSome(act.config.strategy) /\ act.config.strategy.v = "cgroup_target"
    THEN act.config.cgroup_path.v
    ELSE act.kill_strategy.cgroup_path

\* C9: an action configured with cgroup_target, through with_strategy or
\* through init, selects only pids of the named cgroup.
C9_OnlyNamedCgroup ==
    (KillRan /\ AskedCgroupTarget) =>
        \A i \in 1..Len(alast.targets) :
            alast.targets[i].pid \in PidsOf(world, NamedCgroup)

\* the relative path of a context key
RelOf(key) == <<key[Len(key)]>>

UsageOf(rel) ==
    LET key == CHOOSE k \in DOMAIN world.cgroups : RelOf(k) = rel
    IN  world.cgroups[key].memory_usage

\* C10: with highest_usage{percentage, cgroup_count} a run writes
\* memory.reclaim of exactly the cgroup_count cgroups of largest usage,
\* largest first, each with floor(reclaim_amount_bytes * percentage / 100).
C10_HighestUsageWrites ==
    ( /\ comp = "reclaim"
      /\ alast # None
      /\ alast.op = "run"
      /\ act.enabled
      /\ act.cgroup_manager
      /\ ~act.dry_run
      /\ act.reclaim_strategy.kind = "HighestUsage" )
    => LET e == alast.effects
           have == {r \in RelPaths : IsSome(UsageOf(r))}
       IN  /\ Len(e) = Min2(act.reclaim_strategy.cgroup_count, Cardinality(have))
           /\ \A i \in 1..Len(e) :
                 /\ e[i].kind = "memory_reclaim"
                 /\ e[i].cgroup \in have
                 /\ e[i].amount =
                       (act.reclaim_amount_bytes \div 100) * act.reclaim_strategy.percentage
                       + ((act.reclaim_amount_bytes % 100) * act.reclaim_strategy.percentage)
                             \div 100
                 /\ \A j \in 1..Len(e) : i < j =>
                       /\ e[i].cgroup # e[j].cgroup
                       /\ UsageOf(e[i].cgroup).v >= UsageOf(e[j].cgroup).v
                 /\ \A r \in have :
                       (\A j \in 1..Len(e) : e[j].cgroup # r)
                           => UsageOf(e[i].cgroup).v >= UsageOf(r).v

ReclaimRan == comp = "reclaim" /\ alast # None /\ alast.op = "run" /\ act.enabled

\* C11: a run over a batch of cgroups (all_cgroups or highest_usage) ends
\* Success iff the memory_reclaim call succeeded for at least one cgroup of
\* the batch, whatever the amount and the percentage.
C11_SuccessIffOneReclaimed ==
    (ReclaimRan /\ act.reclaim_strategy.kind \in {"AllCgroups", "HighestUsage"}) =>
        ( alast.result = "Success"
          <=> \E i \in 1..Len(alast.effects) :
                 /\ alast.effects[i].kind = "memory_reclaim"
                 /\ alast.effects[i].cgroup \in world.reclaimable )

\* a drop_cache invocation that completed
DropCompleted(record) ==
    record # None /\ record.op = "run" /\ record.result = "Success"

\* C12: when a completed drop_cache invocation is followed by a second one
\* that completes, /proc/sys/vm/drop_caches holds what it held before the
\* first.
C12_DropCacheRestores ==
    [][ ( /\ comp = "reclaim"
          /\ act.enabled
          /\ act.reclaim_strategy.kind = "DropCache"
          /\ act' = act
          /\ DropCompleted(alast)
          /\ DropCompleted(alast') )
        => world'.drop_caches.value = alast.before ]_vars

-----------------------------------------------------------------------------
(* Claims about the control loop and the plugin framework                  *)

\* the priority configured for a detector
PriorityOf(name) ==
    LET i == CHOOSE i \in 1..Len(eng.detectors) : eng.detectors[i].name = name
    IN  eng.detectors[i].priority

\* the place of a detector in the configuration
PlaceOf(name) == CHOOSE i \in 1..Len(eng.detectors) : eng.detectors[i].name = name

\* detector a comes before detector b in configured priority order
Precedes(a, b) ==
    \/ PriorityOf(a) < PriorityOf(b)
    \/ PriorityOf(a) = PriorityOf(b) /\ PlaceOf(a) < PlaceOf(b)

\* C13: within one tick the detectors are run in configured priority order
\* up to and including the first that returns Stop and no further; the
\* action chain is run only if a detector that was run returned Stop, in
\* configuration order, up to and including the first action that returns
\* Stop.
C13_ShortCircuit ==
    (comp = "loop" /\ tick # None) =>
        LET d == tick.detectors_run
            a == tick.actions_run
            o == tick.outcome
        IN  /\ \A i \in 1..Len(d) : \A j \in 1..Len(d) : i < j => Precedes(d[i], d[j])
            /\ \A n \in DetectorNames :
                  (\A i \in 1..Len(d) : d[i] # n) =>
                      /\ d # << >>
                      /\ Precedes(d[Len(d)], n)
                      /\ o[d[Len(d)]] = "Stop"
            /\ \A i \in 1..Len(d) : i < Len(d) => o[d[i]] # "Stop"
            /\ a # << >> => \E i \in 1..Len(d) : o[d[i]] = "Stop"
            /\ (\E i \in 1..Len(d) : o[d[i]] = "Stop") =>
                  /\ a # << >>
                  /\ \A i \in 1..Len(a) : a[i] = eng.actions[i]
                  /\ \A i \in 1..Len(a) : i < Len(a) => o[a[i]] # "Stop"
                  /\ Len(a) < Len(eng.actions) => o[a[Len(a)]] = "Stop"

\* the detector with the lowest priority value is configured last and
\* returns Stop: it alone is run, then the chain stops at its first action
C13_Witness ==
    /\ comp = "loop"
    /\ tick # None
    /\ eng.detectors[3].priority < eng.detectors[1].priority
    /\ tick.outcome["d3"] = "Stop"
    /\ tick.detectors_run = <<"d3">>
    /\ tick.outcome["a1"] = "Stop"
    /\ tick.actions_run = <<"a1">>

\* C14: a run_with_context whose plugin run returned an error reports
\* result Continue and leaves the plugin's error_count one higher than it
\* was.
C14_ErrorCounted ==
    [][ ( /\ comp = "managed"
          /\ mgd'.last # mgd.last
          /\ mgd'.last.ran = "Err" )
        => ( /\ mgd'.last.result = "Continue"
             /\ mgd'.error_count = mgd.error_count + 1 ) ]_vars

\* C15: load_from_config returns an error when an enabled record of the
\* list names a plugin the registry does not know (here "no_such_plugin").
C15_UnknownNameFails ==
    ( /\ comp = "registry"
      /\ rlast # None
      /\ rlast.op = "load_from_config"
      /\ \E c \in rlast.skipped : c.name = <<"no_such_plugin">> )
    => ~IsOk(rlast.ret)

\* C16: every name of the detector map or the action map is in the general
\* map; after register_detector(d) or register_action(a) the name is in the
\* general map and in its capability map; after unregister_plugin(n) the
\* name n is in none of the three maps.
C16_RegistryMaps ==
    comp = "registry" =>
        /\ reg.detectors \subseteq reg.plugins
        /\ reg.actions \subseteq reg.plugins
        /\ (rlast # None /\ rlast.op = "register_detector") =>
              rlast.name \in reg.plugins \cap reg.detectors
        /\ (rlast # None /\ rlast.op = "register_action") =>
              rlast.name \in reg.plugins \cap reg.actions
        /\ (rlast # None /\ rlast.op = "unregister_plugin") =>
              rlast.name \notin reg.plugins \cup reg.detectors \cup reg.actions

\* a name registered as a detector was unregistered while another detector
\* and an action stay registered
C16_Witness ==
    /\ comp = "registry"
    /\ rlast # None
    /\ rlast.op = "unregister_plugin"
    /\ rlast.present
    /\ rlast.name = NameCustom
    /\ reg.detectors = {NameMemoryPressureDetector}
    /\ reg.actions = {NameKillAction}
    /\ reg.plugins = {NameMemoryPressureDetector, NameKillAction}

\* C17: a run of a disabled plugin returns Continue and has no effect: a
\* detector leaves its status map and its sample history as they were, an
\* action sends no signal and writes nothing, and run_with_context does not
\* call the plugin's run.
C17_DisabledRunIsInert ==
    [][ /\ (comp = "detector" /\ ~det.enabled /\ det_trace' # det_trace) =>
              /\ det_trace'[Len(det_trace')].ret = "Continue"
              /\ det_status' = det_status
              /\ pressure_history' = pressure_history
        /\ (comp = "usage" /\ ~udet.enabled /\ ulast' # ulast) =>
              /\ ulast'.ret = "Continue"
              /\ udet'.status = udet.status
        /\ (comp = "kill" /\ ~act.enabled /\ alast' # alast /\ alast'.op = "run") =>
              /\ alast'.ret = "Continue"
              /\ alast'.sent = << >>
              /\ alast'.targets = << >>
              /\ world' = world
        /\ (comp = "reclaim" /\ ~act.enabled /\ alast' # alast /\ alast'.op = "run") =>
              /\ alast'.ret = "Continue"
              /\ alast'.effects = << >>
              /\ world' = world
        /\ (comp = "managed" /\ ~mgd.enabled /\ mgd'.last # mgd.last) =>
              /\ mgd'.last.result = "Continue"
              /\ mgd'.last.ran = "not run" ]_vars

\* a disabled kill action, configured by init to kill up to MaxKill
\* processes, was run on a context with live processes
C17_Witness ==
    /\ comp = "kill"
    /\ ~act.enabled
    /\ act.initialized
    /\ act.max_kill_count = MaxKill
    /\ alast # None
    /\ alast.op = "run"
    /\ alast.ret = "Continue"

\* the cgroups of a context that match a pattern
Matching(pattern, ctx) ==
    {p \in DOMAIN ctx : pattern = Star \/ Contains(p, pattern)}

\* what a run has to return and to record when `triggering` is the set of
\* the matching cgroups that satisfy the predicate
RunReports(ret, status, triggering) ==
    /\ ret = (IF triggering # {} THEN "Stop" ELSE "Continue")
    /\ ret = "Stop" =>
          /\ "triggered_cgroups" \in DOMAIN status
          /\ SeqToSet(status["triggered_cgroups"].v) = triggering
          /\ Len(status["triggered_cgroups"].v) = Cardinality(triggering)

\* C18: the run of an enabled detector returns Stop iff some cgroup of the
\* context that matches the pattern satisfies the detector's predicate, and
\* then triggered_cgroups holds exactly those cgroups; a matching cgroup
\* without the data is skipped and the others are still evaluated;
\* otherwise the run returns Continue.
C18_StopIffTriggered ==
    /\ (comp = "usage" /\ ulast # None /\ udet.enabled) =>
          RunReports(ulast.ret, udet.status,
                     {p \in Matching(udet.cgroup_pattern, ulast.ctx) :
                         /\ IsSome(ulast.ctx[p].memory_usage)
                         /\ CheckUsageThreshold(udet, ulast.ctx, p) = Ok(TRUE)})
    /\ (comp = "detector" /\ det_trace # << >> /\ det.enabled) =>
          LET call == det_trace[Len(det_trace)]
          IN  RunReports(call.ret, det_status,
                         {p \in Matching(det.cgroup_pattern, call.ctx) :
                             /\ IsSome(call.ctx[p])
                             /\ CheckPressureThreshold(det, pressure_history, call.ctx,
                                                       p, call.t) = Ok(TRUE)})

\* svc/a has no usage data, svc/b is over the threshold: the run skips the
\* first and stops on the second
C18_Witness ==
    /\ comp = "usage"
    /\ ulast # None
    /\ udet.enabled
    /\ udet.cgroup_pattern = Star
    /\ DOMAIN ulast.ctx = {PathSvcA, PathSvcB}
    /\ ~IsSome(ulast.ctx[PathSvcA].memory_usage)
    /\ ulast.ret = "Stop"
    /\ udet.status["triggered_cgroups"] = Some(<<PathSvcB>>)

\* C19: the memory-usage predicate of a cgroup with usage data is true iff
\* usage >= threshold_bytes, or threshold_percentage is set and
\* memory_limit is present and not 0 and usage / limit x 100 >=
\* threshold_percentage. Read off a run over a context holding that one
\* cgroup.
C19_UsagePredicate ==
    ( /\ comp = "usage"
      /\ ulast # None
      /\ udet.enabled
      /\ DOMAIN ulast.ctx = {PathSvcA}
      /\ IsSome(ulast.ctx[PathSvcA].memory_usage) )
    => LET usage == ulast.ctx[PathSvcA].memory_usage.v
           limit == ulast.ctx[PathSvcA].memory_limit
           pct   == udet.threshold_percentage
       IN  ulast.ret = "Stop"
             <=> \/ usage >= udet.threshold_bytes
                 \/ /\ IsSome(pct)
                    /\ IsSome(limit)
                    /\ limit.v # 0
                    /\ usage * 100 >= pct.v * limit.v

-----------------------------------------------------------------------------
(* Claims about cgroup_exists                                              *)

\* C20: cgroup_exists returns Ok(true) when the directory exists, Ok(false)
\* when the metadata lookup fails with not-found, and an Io error when it
\* fails in any other way, in the V1 and in the V2 source.
C20_ExistsResult ==
    (comp = "exists" /\ last # None /\ last.op = "cgroup_exists") =>
        last.res = ( IF IsOk(last.metadata) THEN Ok(TRUE)
                     ELSE IF last.metadata = Err("NotFound") THEN Ok(FALSE)
                     ELSE Err("Io") )

-----------------------------------------------------------------------------
(* Claims about list_cgroups, CgroupPath and the pressure readers           *)

C22_PathRoundTrip ==
    (comp = "path" /\ last # None /\ last.op = "create_cgroup_path") =>
        IF PathStartsWith(last.arg, src.root)
        THEN /\ IsOk(last.res)
             /\ last.res.v.root = src.root
             /\ last.res.v.path = last.arg
             /\ PathStartsWith(last.res.v.path, last.res.v.root)
             /\ Join(last.res.v.root, last.res.v.relative_path) = last.res.v.path
        ELSE last.res = Err("InvalidPath")

\* a scaled pressure x * usage / limit is a number within [0, 100] percent
InPercentRange(s) == s.den > 0 /\ 0 <= s.num /\ s.num <= 100 * 1000000 * s.den

\* C23: every ResourcePressure the V1 source returns from the per-cgroup
\* get_memory_pressure has sec_10, sec_60 and sec_300 within [0, 100], for
\* all memory_usage and memory_limit values (usage > limit and limit = 0
\* included).
C23_PressureInRange ==
    ( /\ comp = "v1pressure" /\ last # None
      /\ last.op = "get_memory_pressure" /\ IsOk(last.res) )
    => /\ InPercentRange(last.res.v.sec_10)
       /\ InPercentRange(last.res.v.sec_60)
       /\ InPercentRange(last.res.v.sec_300)

\* C24: the V1 system memory pressure read from /proc/vmstat is
\* sec_10 = min(100, 100 * steal / scan) when scan > 0 and 0 otherwise,
\* sec_60 = 0.8 * sec_10, sec_300 = 0.6 * sec_10, total = None, where scan
\* and steal are the sums of the kswapd and direct counters; 1000, 0, 900, 0
\* give {90, 72, 54, None}.  (100 * steal / scan is whole for the counters
\* drawn.)
C24_VmstatFormula ==
    ( /\ comp = "v1pressure" /\ last # None
      /\ last.op = "get_system_memory_pressure" )
    => LET v == disk.vmstat
           scan  == ParseU64OrZero(v.pgscan_kswapd) + ParseU64OrZero(v.pgscan_direct)
           steal == ParseU64OrZero(v.pgsteal_kswapd) + ParseU64OrZero(v.pgsteal_direct)
           s10 == IF scan > 0 THEN 1000000 * Min2(100, (100 * steal) \div scan)
                  ELSE 0
       IN  /\ IsOk(last.res)
           /\ last.res.v.sec_10 = s10
           /\ 10 * last.res.v.sec_60 = 8 * s10
           /\ 10 * last.res.v.sec_300 = 6 * s10
           /\ last.res.v.total = None

\* the values of the first line of the content that begins with `kind`
LineValues(content, kind) ==
    LET i == CHOOSE i \in 1..Len(content) :
                 /\ content[i][1].key = kind
                 /\ \A j \in 1..(i - 1) : content[j][1].key # kind
        l == content[i]
    IN  [sec_10 |-> l[2].vals[1].v, sec_60 |-> l[3].vals[1].v,
         sec_300 |-> l[4].vals[1].v, total |-> Some(l[5].vals[1].v)]

HasLine(content, kind) == \E i \in 1..Len(content) : content[i][1].key = kind

\* C25: the V2 get_memory_pressure of a cgroup reads the cgroup's
\* memory.pressure file and returns the values of its line beginning with
\* `full`, and those of the line beginning with `some` when the file has no
\* `full` line.
C25_FullThenSome ==
    ( /\ comp = "psi" /\ last # None /\ last.op = "get_memory_pressure"
      /\ disk[FileMemoryPressure] # None )
    => LET content == disk[FileMemoryPressure].v
       IN  /\ HasLine(content, "full") => last.res = Ok(LineValues(content, "full"))
           /\ (~HasLine(content, "full") /\ HasLine(content, "some"))
                  => last.res = Ok(LineValues(content, "some"))

\* the token is key=value with a value of the kind its key calls for
WellFormed(tok) ==
    /\ KvLen(tok) = 2
    /\ IF tok.key = "total" THEN tok.vals[1].kind = "integer"
       ELSE tok.vals[1].kind \in {"decimal", "integer"}

AvgKeys(line) == {line[i].key : i \in 2..Len(line)} \cap {"avg10", "avg60", "avg300"}

\* C26: PsiData::from_line succeeds on a line carrying the three avgN=
\* tokens with or without a total= token, and returns a Parse error for
\* every line in which a token is malformed (a total= token whose value is
\* not an unsigned integer included) and for every line with fewer than the
\* three avgN= tokens.
C26_FromLineResult ==
    (comp = "psi" /\ last # None /\ last.op = "from_line") =>
        LET line == last.line
            malformed == \E i \in 2..Len(line) : ~WellFormed(line[i])
            short == Cardinality(AvgKeys(line)) < 3
        IN  IF malformed \/ short THEN last.res = Err("Parse")
            ELSE IsOk(last.res)

\* the fields whose get_cache closure is modelled as one operator: a single
\* file read, or the V1 estimate of the memory pressure
PlainRead == DirectRead /\ src.field # "io_stat"

Estimated == src.version = "V1" /\ src.field = "memory_pressure"

\* what the closure handed to get_cache gives in the current state
ReadOutcome ==
    IF Estimated THEN EstimateMemoryPressure(cache, src.rel, src_clock, disk)
    ELSE ReadFile(cache, disk, TestFile)

\* a lookup that finds no fresh entry and whose underlying read fails
FailedMiss ==
    /\ LookupStep
    /\ PlainRead \/ Estimated
    /\ ~Fresh(cache, TestKey, Ttl(src.field), src_clock)
    /\ ~IsOk(ReadOutcome.res)

\* C30 as stated: when a lookup has no fresh entry and the underlying read
\* fails, the lookup returns that error and the whole cache map is left
\* unchanged.
C30_FailedReadLeavesMap ==
    [][ FailedMiss => /\ last'.res = ReadOutcome.res
                      /\ cache' = cache ]_vars

\* C30, amended: when a lookup has no fresh entry and the underlying read
\* fails, the lookup returns that error, inserts nothing under its key and
\* leaves an expired entry of the key as it was, neither refreshed nor
\* removed nor served, so the key still has no fresh entry and the next
\* lookup reads again; the map is otherwise as the read left it, which is
\* unchanged for every accessor but the V1 memory-pressure estimate, whose
\* nested usage, limit and system-pressure lookups keep what they read.
C30_FailedReadLeavesKey ==
    [][ FailedMiss =>
          /\ last'.res = ReadOutcome.res
          /\ last'.reads >= 1
          /\ cache' = ReadOutcome.c
          /\ PlainRead => cache' = cache
          /\ (TestKey \in DOMAIN cache') = (TestKey \in DOMAIN cache)
          /\ TestKey \in DOMAIN cache => cache'[TestKey] = cache[TestKey]
          /\ ~Fresh(cache', TestKey, Ttl(src.field), src_clock)
          /\ \A k \in DOMAIN cache' :
                (k \notin DOMAIN cache \/ cache'[k] # cache[k])
                    => /\ Estimated
                       /\ k \in {Key("memory_usage", src.rel),
                                 Key("memory_limit", src.rel),
                                 SystemMemoryPressureKey} ]_vars

\* memory_usage: the value 100 read at t = 0 has expired at t = 1.2 s, the file
\* is unreadable by then, the lookup returns the Io error and the expired
\* entry is still in the cache
C30_Witness ==
    /\ comp = "source"
    /\ src.field = "memory_usage"
    /\ last # None
    /\ last.t = 1200
    /\ TestKey \in DOMAIN last.before
    /\ last.before[TestKey].timestamp = 0
    /\ last.before[TestKey].data = 100
    /\ disk["usage"] = Err("Io")
    /\ last.res = Err("Io")
    /\ last.reads = 1
    /\ cache = last.before

\* C27: under concurrent lookups of one key, each miss performing its own
\* read, the entry left in the cache is the one the last writer wrote, and
\* every value served from the cache was read from the filesystem less than
\* the field's TTL before the lookup that returns it.
C27_LastWriterAndStaleness ==
    comp = "tasks" =>
        /\ last.written # None
              => /\ LookupKey \in DOMAIN cache
                 /\ cache[LookupKey] = last.written.v
        /\ (last.ret # None /\ last.ret.hit)
              => last.ret.at - last.ret.read_at < Ttl(src.field)

\* the signal-delivery attempts of the run made on pid
AttemptsOn(pid) == {i \in 1..Len(alast.sent) : alast.sent[i].pid = pid}

\* C28: in a KillAction run without dry_run every selected process receives
\* exactly one signal-delivery attempt: a failed delivery does not abort the
\* attempts for the processes after it, and no process is attempted twice in
\* the run.
C28_OneAttemptEach ==
    (KillRan /\ ~act.dry_run) =>
        /\ \A i \in 1..Len(alast.targets) :
              Cardinality(AttemptsOn(alast.targets[i].pid)) = 1
        /\ \A i \in 1..Len(alast.sent) :
              \E j \in 1..Len(alast.targets) : alast.targets[j].pid = alast.sent[i].pid

\* C29: in any single run of KillAction, whatever the strategy and the
\* context, at most max_kill_count signals are delivered, and every signalled
\* pid is in the pids list of some cgroup of the context of the run.
C29_BoundedAndFromContext ==
    KillRan =>
        /\ Len(alast.sent) <= act.max_kill_count
        /\ Cardinality({alast.sent[i].pid : i \in 1..Len(alast.sent)}) <= act.max_kill_count
        /\ \A i \in 1..Len(alast.sent) :
              \E path \in DOMAIN world.cgroups : alast.sent[i].pid \in PidsOf(world, path)

\* lowest_oom_score with max_kill_count 2 on cgroups a (1, 2) and b (3, 4, 5):
\* the two processes of oom_score 10 are signalled, the first (pid 2) fails
C29_Witness ==
    /\ KillRan
    /\ world.cgroups = KillContext
    /\ act.kill_strategy.kind = "LowestOomScore"
    /\ act.max_kill_count = 2
    /\ ~act.dry_run
    /\ Len(alast.sent) = 2
    /\ {alast.sent[i].pid : i \in 1..2} = {2, 3}
    /\ \E i \in 1..2 : alast.results[i] = "Failed"

=============================================================================
